---- MODULE Spec2Model ----
(***************************************************************************)
(* SpendWise back end: the transactional ledger-mutation workflow          *)
(* (routes/expenseRoutes.js, routes/profileRoutes.js), the connection pool *)
(* and retryOperation (db.js).                                             *)
(*                                                                         *)
(* The data store is MySQL/InnoDB reached through a mysql2 pool.  It is    *)
(* modelled by three committed tables, and per request one transaction     *)
(* holding the row locks it took and its private versions of the rows it   *)
(* wrote.  A locking statement (UPDATE, DELETE, SELECT ... FOR UPDATE)     *)
(* waits while a row it scans is locked by another transaction; a plain    *)
(* SELECT reads the committed tables.  Statements sent with pool.query run *)
(* in autocommit mode.                                                     *)
(***************************************************************************)
EXTENDS Integers, Sequences, FiniteSets, TLC

\* ---------------------------------------------------------------- bounds
MaxRows == 2          \* infodata rows ever inserted (AUTO_INCREMENT cap)
MaxCats == 1          \* categories rows ever inserted
MaxAmount == 2        \* largest amount of a balance/add request
OpeningBalance == 7   \* a balance left by earlier deposits
MaxRetriesArg == 6    \* largest maxRetries argument passed to retryOperation
MaxUsers == 2         \* users rows ever inserted in a run of the account routes
MaxClock == 2         \* last tick of the clock that stamps tokens
AccessLife == 1       \* ticks an access token lives (expiresIn '365d')
RefreshLife == 2      \* ticks a refresh token lives (expiresIn '730d')
MaxLogins == 2        \* logins of one user that store their refresh token
MaxPage == 3          \* largest _page a listing asks for
MaxLimit == 2         \* largest _limit a listing asks for
MaxWindow == 2        \* largest months / weeks parameter below a year
TicksPerDay == 2      \* times of day a row can carry: midnight and later
DaysPerMonth == 2     \* days of a calendar month

\* -------------------------------------------------- program constants
connectionLimit == 5  \* createPool({ connectionLimit: 5 })
DefaultMaxRetries == 3
FixedDelay == 1000

\* the requests the model follows at once: as many as the pool has
\* connections, the fewest that can hold all of them
Procs == 1..connectionLimit
\* the two slots the requests of most specifications arrive on
Pair == {1, 2}
Users == {1, 2}                       \* users.id of the signed-up users
defaultCategories == {"Travel", "Food", "Petrol", "Clothes", "Rent", "Groceries"}
Sections == {"Food", "Gym", "Income"} \* section / label strings requests carry
Targets == {0, 5}
ItemValues == {1}
Emails == {"a@x.com", "b@x.com"}
Phones == {"555-1", "555-2"}
GoogleIds == {"g1"}
Passwords == {"pw", "bad"}
NullText == "NULL"                    \* SQL NULL in a text column
UNDEF == -1                           \* a body field that is undefined
NULL == -2                            \* SQL NULL in a numeric column

VARIABLES
    balance,      \* users.balance, by users.id
    infodata,     \* committed rows of table infodata
    categories,   \* committed rows of table categories
    nextInfoId,   \* AUTO_INCREMENT of infodata
    nextCatId,    \* AUTO_INCREMENT of categories
    tx,           \* per request: its open transaction
    inUse,        \* connections checked out of the pool
    pc,           \* per request: position in its handler
    req,          \* per request: route and parameters
    loc,          \* per request: the handler's local variables
    conn,         \* per request: the handler's variable `connection` is set
    held,         \* per request: pool connections checked out on its behalf
    tries,        \* per request: loop index i of the retried acquire step
    wrote,        \* per request: a commit of this request changed a table
    resp,         \* per request: the HTTP status it answered (0: none yet)
    deposits,     \* per user and amount: committed balance/add requests
    opening,      \* users.balance before the first request, by users.id
    dirty,        \* per request: another request stored a row in the section
                  \* its cascade had emptied
    rt,           \* one run of retryOperation
    accounts,     \* committed rows of table users
    nextUserId,   \* AUTO_INCREMENT of users
    now,          \* the clock jwt.sign and jwt.verify read
    body,         \* per request: body fields of an account request
    out,          \* per request: error text and token of the response
    logins        \* per users.id: the refresh tokens logins stored, in order

vars == <<balance, infodata, categories, nextInfoId, nextCatId, tx, inUse,
          pc, req, loc, conn, held, tries, wrote, resp, deposits, opening,
          dirty, rt, accounts, nextUserId, now, body, out, logins>>

dbVars == <<balance, infodata, categories, nextInfoId, nextCatId, tx>>
procVars == <<pc, req, loc, conn, held, tries, wrote, resp>>
authVars == <<accounts, nextUserId, now, body, out, logins>>
ghostVars == <<deposits, opening, rt, authVars>>
keepVars == <<deposits, opening, rt, dirty, authVars>>

\* ------------------------------------------------------------ data store
\* the dates of item bodies, and the one the ledger routes store
Dates == {1, 2}
Today == 1
DefaultLimit == 10

DatedRow(id, u, s, v, t, d) ==
    [id |-> id, user_id |-> u, section |-> s, value |-> v, target |-> t,
     date |-> d]

InfoRow(id, u, s, v, t) == DatedRow(id, u, s, v, t, Today)

CatRow(id, u, l, t) == [id |-> id, user_id |-> u, label |-> l, target |-> t]

NoTx == [active |-> FALSE, lockUser |-> FALSE, bal |-> UNDEF,
         lockedIds |-> {}, mine |-> {}, preds |-> {}, delCats |-> {}]

\* parseFloat(x) || 0 of a numeric column
Num(x) == IF x = NULL THEN 0 ELSE x

\* the total of a bag of amounts, given as amount -> number of occurrences
RECURSIVE SumBag(_, _)
SumBag(bag, amounts) ==
    IF amounts = {} THEN 0
    ELSE LET a == CHOOSE x \in amounts : TRUE
         IN  a * bag[a] + SumBag(bag, amounts \ {a})

BySection(rows, u, s) == {r \in rows : r.user_id = u /\ r.section = s}
\* variant: the id alone selects the row
ByIdOfAnyUser(rows, u, id) == {r \in rows : r.id = id}
ById(rows, u, id) == {r \in rows : r.user_id = u /\ r.id = id}
Ids(rows) == {r.id : r \in rows}

\* rows of infodata as transaction p sees them in a locking read
View(p) == {r \in infodata : r.id \notin tx[p].lockedIds} \cup tx[p].mine
CatView(p) == {c \in categories : c.id \notin tx[p].delCats}

\* uncommitted row versions and locks of the other transactions
Others(p) == UNION {tx[q].mine : q \in Procs \ {p}}
LockedByOther(p) == UNION {tx[q].lockedIds : q \in Procs \ {p}}
CatsLockedByOther(p) == UNION {tx[q].delCats : q \in Procs \ {p}}
\* variant: SELECT balance without FOR UPDATE takes no lock and never waits
NoUserLock(p, u) == FALSE

UserLockedByOther(p, u) ==
    \E q \in Procs \ {p} : tx[q].lockUser /\ req[q].user = u

\* a locking statement of p that scans `rows` can take its row locks
CanLock(p, rows) == Ids(rows) \cap LockedByOther(p) = {}

\* InnoDB (REPEATABLE READ, the default the code never changes): a locking
\* scan WHERE user_id = u AND section = s of another transaction also locks
\* the gap, so a row entering (u, s) waits for that transaction
GapLockedByOther(p, u, s) == \E q \in Procs \ {p} : <<u, s>> \in tx[q].preds

\* ------------------------------------------------------------- requests
NoReq == [kind |-> "none", user |-> 0, id |-> 0, section |-> "",
          target |-> 0, value |-> 0]
NoLoc == [label |-> "", bal |-> 0, amt |-> 0, n |-> 0]

Request(k, u, id, s, t, v) ==
    [kind |-> k, user |-> u, id |-> id, section |-> s, target |-> t, value |-> v]

RowIds == 1..MaxRows
CatIds == 1..MaxCats

\* the pool hands out a connection only while fewer than connectionLimit
\* are checked out (waitForConnections: true, queueLimit: 0: callers wait)
PoolHasConnection == inUse < connectionLimit

\* a request arrives on a free slot; `first` is its handler's first step
Begin(p, r, first) ==
    /\ pc[p] = "idle"
    /\ req' = [req EXCEPT ![p] = r]
    /\ pc' = [pc EXCEPT ![p] = first]
    /\ UNCHANGED <<dbVars, inUse, loc, conn, held, tries, wrote, resp, keepVars>>

\* dirty[p]: p is past step (b) of its cascade and this step, taken by
\* another request, stores a row of p's user under the deleted label
PastCascade(p) == req[p].kind = "catdel" /\ pc[p] \in {"c_cat", "commit", "respond"}

Track ==
    dirty' = [p \in Procs |->
                /\ pc'[p] \notin {"idle", "done"}
                /\ \/ dirty[p]
                   \/ /\ PastCascade(p)
                      /\ pc'[p] = pc[p]
                      /\ ~(BySection(infodata', req[p].user, loc[p].label)
                             \subseteq BySection(infodata, req[p].user, loc[p].label))]

\* ------------------------------------------------- shared handler steps
\* connection = await pool.promise().getConnection();
\* await connection.beginTransaction();
Acquire(p, next) ==
    /\ pc[p] = "begin"
    /\ PoolHasConnection
    /\ inUse' = inUse + 1
    /\ held' = [held EXCEPT ![p] = 1]
    /\ conn' = [conn EXCEPT ![p] = TRUE]
    /\ tx' = [tx EXCEPT ![p] = [NoTx EXCEPT !.active = TRUE]]
    /\ pc' = [pc EXCEPT ![p] = next]
    /\ UNCHANGED <<balance, infodata, categories, nextInfoId, nextCatId,
                   req, loc, tries, wrote, resp, keepVars>>

\* the tables after connection.commit() of p's transaction
CommittedInfodata(p) == View(p)
CommittedCategories(p) == CatView(p)
CommittedBalance(p) ==
    IF tx[p].bal = UNDEF THEN balance
    ELSE [balance EXCEPT ![req[p].user] = tx[p].bal]

\* await connection.commit();
Commit(p) ==
    /\ pc[p] = "commit"
    /\ infodata' = CommittedInfodata(p)
    /\ categories' = CommittedCategories(p)
    /\ balance' = CommittedBalance(p)
    /\ wrote' = [wrote EXCEPT ![p] =
                    \/ infodata' # infodata
                    \/ categories' # categories
                    \/ balance' # balance]
    /\ deposits' = IF req[p].kind = "add"
                   THEN [deposits EXCEPT ![req[p].user][req[p].value] = @ + 1]
                   ELSE deposits
    /\ tx' = [tx EXCEPT ![p] = NoTx]
    /\ pc' = [pc EXCEPT ![p] = IF req[p].kind = "update" THEN "u_read" ELSE "respond"]
    /\ UNCHANGED <<nextInfoId, nextCatId, inUse, req, loc, conn, held,
                   tries, resp, opening, rt, authVars>>
    /\ Track

\* finally { if (connection) connection.release(); }
HeldAfterFinally(p) == IF conn[p] THEN held[p] - 1 ELSE held[p]

\* the handler sends `status` and leaves through `finally`; a connection it
\* does not release stays checked out of the pool
Leave(p, status) ==
    /\ resp' = [resp EXCEPT ![p] = status]
    /\ held' = [held EXCEPT ![p] = HeldAfterFinally(p)]
    /\ inUse' = inUse - (held[p] - HeldAfterFinally(p))
    /\ conn' = [conn EXCEPT ![p] = FALSE]
    /\ pc' = [pc EXCEPT ![p] = "done"]
    /\ dirty' = [dirty EXCEPT ![p] = FALSE]
    /\ UNCHANGED <<req, loc, tries, wrote>>

\* the request is over; its slot takes the next request
Finish(p) ==
    /\ pc[p] = "done"
    /\ pc' = [pc EXCEPT ![p] = "idle"]
    /\ req' = [req EXCEPT ![p] = NoReq]
    /\ loc' = [loc EXCEPT ![p] = NoLoc]
    /\ resp' = [resp EXCEPT ![p] = 0]
    /\ held' = [held EXCEPT ![p] = 0]
    /\ tries' = [tries EXCEPT ![p] = 0]
    /\ wrote' = [wrote EXCEPT ![p] = FALSE]
    /\ UNCHANGED <<dbVars, inUse, conn, keepVars>>

\* await connection.rollback(); return res.status(status)
RollbackAndLeave(p, status) ==
    /\ tx' = [tx EXCEPT ![p] = NoTx]
    /\ Leave(p, status)
    /\ UNCHANGED <<balance, infodata, categories, nextInfoId, nextCatId, ghostVars>>

\* res.json(...) on the success path of balance/add, income-transactions
\* delete and custom-categories delete
Respond(p) ==
    /\ pc[p] = "respond"
    /\ Leave(p, 200)
    /\ UNCHANGED <<dbVars, ghostVars>>

\* the statements of a handler that lie inside its try block
TryPcs == {"begin", "a_sel", "a_upd", "a_ins", "d_sel", "d_del", "d_lock",
           "d_upd", "c_sel", "c_info", "c_cat", "u_target", "u_item",
           "commit", "u_read"}

\* a statement rejects (store error, deadlock victim, lock wait timeout):
\* catch { if (connection) await connection.rollback(); res.status(500) }
Catch(p) ==
    /\ pc[p] \in TryPcs
    /\ RollbackAndLeave(p, 500)

\* SELECT balance FROM users WHERE id = ? FOR UPDATE
\* const currentBalance = parseFloat(userRows[0].balance) || 0;
SelectBalanceForUpdate(p, next) ==
    /\ ~UserLockedByOther(p, req[p].user)
    /\ tx' = [tx EXCEPT ![p].lockUser = TRUE]
    /\ loc' = [loc EXCEPT ![p].bal =
                 Num(IF tx[p].bal = UNDEF THEN balance[req[p].user] ELSE tx[p].bal)]
    /\ pc' = [pc EXCEPT ![p] = next]
    /\ UNCHANGED <<balance, infodata, categories, nextInfoId, nextCatId,
                   inUse, req, conn, held, tries, wrote, resp, keepVars>>

\* variant: the UPDATE of users sent through the pool, outside the transaction
UpdateBalanceAutocommit(p, newBalance, next) ==
    /\ ~UserLockedByOther(p, req[p].user)
    /\ balance' = [balance EXCEPT ![req[p].user] = newBalance]
    /\ pc' = [pc EXCEPT ![p] = next]
    /\ UNCHANGED <<tx, infodata, categories, nextInfoId, nextCatId,
                   inUse, req, loc, conn, held, tries, wrote, resp, keepVars>>

\* UPDATE users SET balance = ? WHERE id = ?
UpdateBalance(p, newBalance, next) ==
    /\ ~UserLockedByOther(p, req[p].user)
    /\ tx' = [tx EXCEPT ![p].lockUser = TRUE, ![p].bal = newBalance]
    /\ pc' = [pc EXCEPT ![p] = next]
    /\ UNCHANGED <<balance, infodata, categories, nextInfoId, nextCatId,
                   inUse, req, loc, conn, held, tries, wrote, resp, keepVars>>

\* --------------------------------------------- POST /profile/balance/add
StartAdd(p, U) ==
    \E u \in U, a \in 0..MaxAmount :
        Begin(p, Request("add", u, 0, "", 0, a), "begin")

\* if (typeof amount !== 'number' || amount <= 0) return 400
AmountValid(amount) == amount > 0

AddValidate(p) ==
    /\ pc[p] = "begin" /\ req[p].kind = "add"
    /\ ~AmountValid(req[p].value)
    /\ Leave(p, 400)
    /\ UNCHANGED <<dbVars, ghostVars>>

AddAcquire(p) ==
    /\ req[p].kind = "add"
    /\ AmountValid(req[p].value)
    /\ Acquire(p, "a_sel")

AddSelect(p) ==
    /\ pc[p] = "a_sel"
    /\ SelectBalanceForUpdate(p, "a_upd")

\* const newBalance = currentBalance + amount;
AddUpdate(p) ==
    /\ pc[p] = "a_upd"
    /\ UpdateBalance(p, loc[p].bal + req[p].value, "a_ins")

\* variant: the Income row inserted with value 0 in place of the amount
IncomeRowWithoutAmount(p) == InfoRow(nextInfoId, req[p].user, "Income", 0, 0)

\* INSERT INTO infodata (...) VALUES (userId, 0, ..., amount, ..., 'Income', ...)
IncomeRow(p) == InfoRow(nextInfoId, req[p].user, "Income", req[p].value, 0)

\* an INSERT of `row` on p's transaction
InsertInTx(p, row, next) ==
    /\ nextInfoId <= MaxRows
    /\ ~GapLockedByOther(p, row.user_id, row.section)
    /\ tx' = [tx EXCEPT ![p].mine = @ \cup {row},
                        ![p].lockedIds = @ \cup {row.id}]
    /\ nextInfoId' = nextInfoId + 1
    /\ pc' = [pc EXCEPT ![p] = next]
    /\ UNCHANGED <<balance, infodata, categories, nextCatId,
                   inUse, req, loc, conn, held, tries, wrote, resp, keepVars>>

AddInsert(p) ==
    /\ pc[p] = "a_ins"
    /\ InsertInTx(p, IncomeRow(p), "commit")

\* ------------------------- DELETE /profile/income-transactions/delete/:id
StartIncDel(p, U) ==
    \E u \in U, id \in RowIds :
        Begin(p, Request("incdel", u, id, "", 0, 0), "begin")

IncDelAcquire(p) ==
    /\ req[p].kind = "incdel"
    /\ Acquire(p, "d_sel")

\* SELECT value FROM infodata WHERE id = ? AND user_id = ? AND section = 'Income'
IncomeTransaction(p) ==
    {r \in ById(infodata, req[p].user, req[p].id) : r.section = "Income"}

IncDelSelect(p) ==
    /\ pc[p] = "d_sel"
    /\ IF IncomeTransaction(p) = {}
       THEN RollbackAndLeave(p, 404)
       ELSE /\ loc' = [loc EXCEPT ![p].amt =
                        (CHOOSE r \in IncomeTransaction(p) : TRUE).value]
            /\ pc' = [pc EXCEPT ![p] = "d_del"]
            /\ UNCHANGED <<dbVars, inUse, req, conn, held, tries, wrote, resp,
                           keepVars>>

\* DELETE FROM infodata WHERE id = ? AND user_id = ?   (on p's transaction)
DeleteByIdInTx(p, next) ==
    LET matched == ById(View(p), req[p].user, req[p].id) IN
    /\ CanLock(p, ById(infodata \cup Others(p), req[p].user, req[p].id))
    /\ tx' = [tx EXCEPT ![p].mine = @ \ matched,
                        ![p].lockedIds = @ \cup Ids(matched)]
    /\ pc' = [pc EXCEPT ![p] = next]
    /\ UNCHANGED <<balance, infodata, categories, nextInfoId, nextCatId,
                   inUse, req, loc, conn, held, tries, wrote, resp, keepVars>>

IncDelDelete(p) ==
    /\ pc[p] = "d_del"
    /\ DeleteByIdInTx(p, "d_lock")

IncDelLock(p) ==
    /\ pc[p] = "d_lock"
    /\ SelectBalanceForUpdate(p, "d_upd")

\* const newBalance = currentBalance - amountToDeduct;
IncDelUpdate(p) ==
    /\ pc[p] = "d_upd"
    /\ UpdateBalance(p, loc[p].bal - loc[p].amt, "commit")

\* ------------------------------------- DELETE /items/custom-categories/:id
StartCatDel(p, U) ==
    \E u \in U, id \in CatIds :
        Begin(p, Request("catdel", u, id, "", 0, 0), "begin")

CatDelAcquire(p) ==
    /\ req[p].kind = "catdel"
    /\ Acquire(p, "c_sel")

\* SELECT label FROM categories WHERE id = ? AND user_id = ?
CategoryRows(rows, p) ==
    {c \in rows : c.id = req[p].id /\ c.user_id = req[p].user}

CatDelSelect(p) ==
    /\ pc[p] = "c_sel"
    /\ IF CategoryRows(categories, p) = {}
       THEN RollbackAndLeave(p, 404)
       ELSE /\ loc' = [loc EXCEPT ![p].label =
                        (CHOOSE c \in CategoryRows(categories, p) : TRUE).label]
            /\ pc' = [pc EXCEPT ![p] = "c_info"]
            /\ UNCHANGED <<dbVars, inUse, req, conn, held, tries, wrote, resp,
                           keepVars>>

\* variant: the ledger DELETE bound to values that match no row
DeleteNoSectionInTx(p, u, s) ==
    /\ tx' = [tx EXCEPT ![p].preds = @ \cup {<<u, s>>}]
    /\ loc' = [loc EXCEPT ![p].n = 0]

\* variant: the count reported is that of all the user's rows
DeleteSectionCountsUser(p, u, s) ==
    LET matched == BySection(View(p), u, s) IN
    /\ CanLock(p, BySection(infodata \cup Others(p), u, s))
    /\ tx' = [tx EXCEPT ![p].mine = @ \ matched,
                        ![p].lockedIds = @ \cup Ids(matched),
                        ![p].preds = @ \cup {<<u, s>>}]
    /\ loc' = [loc EXCEPT ![p].n = Cardinality({r \in View(p) : r.user_id = u})]

\* DELETE FROM infodata WHERE user_id = ? AND section = ?   (on p's transaction)
DeleteSectionInTx(p, u, s) ==
    LET matched == BySection(View(p), u, s) IN
    /\ CanLock(p, BySection(infodata \cup Others(p), u, s))
    /\ tx' = [tx EXCEPT ![p].mine = @ \ matched,
                        ![p].lockedIds = @ \cup Ids(matched),
                        ![p].preds = @ \cup {<<u, s>>}]
    /\ loc' = [loc EXCEPT ![p].n = Cardinality(matched)]

CatDelInfodata(p) ==
    /\ pc[p] = "c_info"
    /\ DeleteSectionInTx(p, req[p].user, loc[p].label)
    /\ pc' = [pc EXCEPT ![p] = "c_cat"]
    /\ UNCHANGED <<balance, infodata, categories, nextInfoId, nextCatId,
                   inUse, req, conn, held, tries, wrote, resp, keepVars>>

\* variant: the DELETE of the category without the affectedRows check
CatDelCategoryUnchecked(p) ==
    /\ pc[p] = "c_cat"
    /\ req[p].id \notin CatsLockedByOther(p)
    /\ tx' = [tx EXCEPT ![p].delCats = @ \cup {req[p].id}]
    /\ pc' = [pc EXCEPT ![p] = "commit"]
    /\ UNCHANGED <<balance, infodata, categories, nextInfoId, nextCatId,
                   inUse, req, loc, conn, held, tries, wrote, resp, keepVars>>

\* DELETE FROM categories WHERE id = ? AND user_id = ?
\* if (deleteCategoryResult.affectedRows === 0) rollback, 404
CatDelCategory(p) ==
    /\ pc[p] = "c_cat"
    /\ req[p].id \notin CatsLockedByOther(p)
    /\ IF CategoryRows(CatView(p), p) = {}
       THEN RollbackAndLeave(p, 404)
       ELSE /\ tx' = [tx EXCEPT ![p].delCats = @ \cup {req[p].id}]
            /\ pc' = [pc EXCEPT ![p] = "commit"]
            /\ UNCHANGED <<balance, infodata, categories, nextInfoId, nextCatId,
                           inUse, req, loc, conn, held, tries, wrote, resp,
                           keepVars>>

\* ------------------------------------------------------ retryOperation
ErrorCodes == {"ER_USER_LIMIT_REACHED", "ER_LOCK_DEADLOCK", "PROTOCOL_CONNECTION_LOST"}
Results == {"conn", "rows"}          \* what a successful operation returns
NoError == [code |-> "", at |-> 0]   \* `let lastError;` (undefined)

\* variant: every error code taken for the transient one
AnyErrorTransient(code) == TRUE

\* if (error.code === 'ER_USER_LIMIT_REACHED') { wait; continue; } throw error;
IsTransient(code) == code = "ER_USER_LIMIT_REACHED"

\* what the loop does after invocation i (0-based) failed with `code`:
\* run the operation again, or throw (at once, or when the loop runs out)
AfterFailure(i, maxRetries, code) ==
    IF IsTransient(code) /\ i + 1 < maxRetries THEN "again" ELSE "throw"

\* One run of retryOperation(operation, maxRetries).  rt.calls lists what
\* each invocation of the operation did (a result or an error code),
\* rt.waits the delays slept, rt.i the loop index.
RetryStart(m) ==
    [status |-> "loop", maxRetries |-> m, i |-> 0, lastError |-> NoError,
     calls |-> <<>>, waits |-> <<>>, result |-> "", raised |-> NoError]

\* variant: the loop bound off by one (i <= maxRetries)
LoopRunsOnceMore(i, maxRetries) == i <= maxRetries

\* for (let i = 0; i < maxRetries; i++)
LoopRuns(i, maxRetries) == i < maxRetries

\* try { return await operation(); } catch (error) { lastError = error; ... }
RtInvoke ==
    /\ rt.status = "loop"
    /\ LoopRuns(rt.i, rt.maxRetries)
    /\ \E o \in Results \cup ErrorCodes :
        LET n == Len(rt.calls) + 1
            e == [code |-> o, at |-> n] IN
        rt' = IF o \in Results
              THEN [rt EXCEPT !.calls = Append(@, o), !.status = "returned",
                              !.result = o]
              ELSE IF IsTransient(o)
              THEN [rt EXCEPT !.calls = Append(@, o), !.status = "waiting",
                              !.lastError = e]
              ELSE [rt EXCEPT !.calls = Append(@, o), !.status = "thrown",
                              !.lastError = e, !.raised = e]
    /\ UNCHANGED <<dbVars, inUse, procVars, deposits, opening, dirty, authVars>>

\* variant: a delay that doubles with every attempt
BackoffExponential(i) == FixedDelay * 2 ^ i

\* await new Promise(resolve => setTimeout(resolve, 1000 * (i + 1))); continue;
Backoff(i) == FixedDelay * (i + 1)

RtWait ==
    /\ rt.status = "waiting"
    /\ rt' = [rt EXCEPT !.waits = Append(@, Backoff(rt.i)), !.i = @ + 1,
                        !.status = "loop"]
    /\ UNCHANGED <<dbVars, inUse, procVars, deposits, opening, dirty, authVars>>

\* the loop ran out: throw lastError;
RtExhausted ==
    /\ rt.status = "loop"
    /\ ~LoopRuns(rt.i, rt.maxRetries)
    /\ rt' = [rt EXCEPT !.status = "thrown", !.raised = rt.lastError]
    /\ UNCHANGED <<dbVars, inUse, procVars, deposits, opening, dirty, authVars>>

\* ----------------------------------------------------------- PUT /items/:id
StartUpdate(p, U, S, T) ==
    \E u \in U, id \in RowIds, s \in S, t \in T, v \in ItemValues :
        Begin(p, Request("update", u, id, s, t, v), "u_get")

\* connection = await retryOperation(async () => {
\*   const conn = await pool.promise().getConnection();
UpdGet(p) ==
    /\ pc[p] = "u_get"
    /\ PoolHasConnection
    /\ inUse' = inUse + 1
    /\ held' = [held EXCEPT ![p] = @ + 1]
    /\ pc' = [pc EXCEPT ![p] = "u_begin"]
    /\ UNCHANGED <<dbVars, req, loc, conn, tries, wrote, resp, keepVars>>

\* getConnection rejects: retried when transient, else the handler's catch
\* runs with `connection` still undefined
UpdGetFails(p) ==
    /\ pc[p] = "u_get"
    /\ \E code \in ErrorCodes :
        IF AfterFailure(tries[p], DefaultMaxRetries, code) = "again"
        THEN /\ tries' = [tries EXCEPT ![p] = @ + 1]
             /\ UNCHANGED <<dbVars, inUse, pc, req, loc, conn, held, wrote,
                            resp, keepVars>>
        ELSE /\ Leave(p, 500)
             /\ UNCHANGED <<dbVars, ghostVars>>

\*   await conn.beginTransaction();
\*   return conn; });
UpdBegin(p) ==
    /\ pc[p] = "u_begin"
    /\ conn' = [conn EXCEPT ![p] = TRUE]
    /\ tx' = [tx EXCEPT ![p] = [NoTx EXCEPT !.active = TRUE]]
    /\ pc' = [pc EXCEPT ![p] = IF req[p].target # UNDEF THEN "u_target" ELSE "u_item"]
    /\ UNCHANGED <<balance, infodata, categories, nextInfoId, nextCatId,
                   inUse, req, loc, held, tries, wrote, resp, keepVars>>

\* beginTransaction rejects: `conn` is local to the retried function and is
\* not released; the retry takes another connection, the throw leaves
\* `connection` undefined
UpdBeginFails(p) ==
    /\ pc[p] = "u_begin"
    /\ \E code \in ErrorCodes :
        IF AfterFailure(tries[p], DefaultMaxRetries, code) = "again"
        THEN /\ tries' = [tries EXCEPT ![p] = @ + 1]
             /\ pc' = [pc EXCEPT ![p] = "u_get"]
             /\ UNCHANGED <<dbVars, inUse, req, loc, conn, held, wrote,
                            resp, keepVars>>
        ELSE /\ Leave(p, 500)
             /\ UNCHANGED <<dbVars, ghostVars>>

\* UPDATE infodata SET target = ? WHERE section = ? AND user_id = ?
\* variant: the UPDATE matches the rows and leaves their target
KeepTarget(rows, t) == rows

SetTarget(rows, t) == {[r EXCEPT !.target = t] : r \in rows}

UpdTarget(p) ==
    LET u == req[p].user
        s == req[p].section
        matched == BySection(View(p), u, s) IN
    /\ pc[p] = "u_target"
    /\ CanLock(p, BySection(infodata \cup Others(p), u, s))
    /\ tx' = [tx EXCEPT ![p].mine = (@ \ matched) \cup SetTarget(matched, req[p].target),
                        ![p].lockedIds = @ \cup Ids(matched),
                        ![p].preds = @ \cup {<<u, s>>}]
    /\ pc' = [pc EXCEPT ![p] = "u_item"]
    /\ UNCHANGED <<balance, infodata, categories, nextInfoId, nextCatId,
                   inUse, req, loc, conn, held, tries, wrote, resp, keepVars>>

\* UPDATE infodata SET title = ?, value = ?, date = ?, section = ?,
\*   payment_mode = ?, notes = ? WHERE id = ? AND user_id = ?
SetItem(rows, s, v) == {[r EXCEPT !.section = s, !.value = v] : r \in rows}

UpdItem(p) ==
    LET u == req[p].user
        matched == ById(View(p), u, req[p].id) IN
    /\ pc[p] = "u_item"
    /\ CanLock(p, ById(infodata \cup Others(p), u, req[p].id))
    /\ \A r \in matched :
          r.section # req[p].section => ~GapLockedByOther(p, u, req[p].section)
    /\ tx' = [tx EXCEPT ![p].mine = (@ \ matched)
                                      \cup SetItem(matched, req[p].section, req[p].value),
                        ![p].lockedIds = @ \cup Ids(matched)]
    /\ pc' = [pc EXCEPT ![p] = "commit"]
    /\ UNCHANGED <<balance, infodata, categories, nextInfoId, nextCatId,
                   inUse, req, loc, conn, held, tries, wrote, resp, keepVars>>

\* after the commit: retryOperation(() => pool.promise().query("SELECT ...
\* FROM infodata WHERE section = ? AND user_id = ?")), then res.json(...);
\* the pool serves the query on a further connection
UpdRead(p) ==
    /\ pc[p] = "u_read"
    /\ PoolHasConnection
    /\ Leave(p, 200)
    /\ UNCHANGED <<dbVars, ghostVars>>

\* ------------------------------------------- single-statement handlers
\* (pool.query / pool.promise().query: one autocommit statement)
Answer(p, r, status, changed) ==
    /\ req' = [req EXCEPT ![p] = r]
    /\ resp' = [resp EXCEPT ![p] = status]
    /\ wrote' = [wrote EXCEPT ![p] = changed]
    /\ pc' = [pc EXCEPT ![p] = "done"]
    /\ UNCHANGED <<tx, inUse, loc, conn, held, tries, ghostVars>>

\* POST /items with the date of the body drawn from D
AddExpenseOn(p, U, S, T, D) ==
    \E u \in U, s \in S, t \in T, v \in ItemValues, d \in D :
        LET r == Request("create", u, nextInfoId, s, t, v) IN
        /\ pc[p] = "idle"
        /\ PoolHasConnection
        /\ \/ /\ nextInfoId <= MaxRows
              /\ ~GapLockedByOther(p, u, s)
              /\ infodata' = infodata \cup {DatedRow(nextInfoId, u, s, v, t, d)}
              /\ nextInfoId' = nextInfoId + 1
              /\ Answer(p, r, 201, TRUE)
              /\ UNCHANGED <<balance, categories, nextCatId>>
           \/ /\ Answer(p, r, 500, FALSE)
              /\ UNCHANGED <<balance, infodata, categories, nextInfoId, nextCatId>>
        /\ Track

\* POST /items
AddExpense(p, U, S, T) == AddExpenseOn(p, U, S, T, {Today})

\* DELETE /items/:id
DeleteItem(p, U) ==
    \E u \in U, id \in RowIds :
        LET r == Request("itemdel", u, id, "", 0, 0) IN
        /\ pc[p] = "idle"
        /\ PoolHasConnection
        /\ \/ /\ CanLock(p, ById(infodata \cup Others(p), u, id))
              /\ infodata' = infodata \ ById(infodata, u, id)
              /\ Answer(p, r, 200, infodata' # infodata)
              /\ UNCHANGED <<balance, categories, nextInfoId, nextCatId>>
           \/ /\ Answer(p, r, 500, FALSE)
              /\ UNCHANGED <<balance, infodata, categories, nextInfoId, nextCatId>>
        /\ Track

\* POST /items/add-category
AddCategory(p, U, S, T) ==
    \E u \in U, l \in S, t \in T :
        LET r == Request("addcat", u, nextCatId, l, t, 0) IN
        /\ pc[p] = "idle"
        /\ PoolHasConnection
        /\ \/ /\ nextCatId <= MaxCats
              /\ categories' = categories \cup {CatRow(nextCatId, u, l, t)}
              /\ nextCatId' = nextCatId + 1
              /\ Answer(p, r, 201, TRUE)
              /\ UNCHANGED <<balance, infodata, nextInfoId>>
           \/ /\ Answer(p, r, 500, FALSE)
              /\ UNCHANGED <<balance, infodata, categories, nextInfoId, nextCatId>>
        /\ Track

\* PUT /items/update-category-target
CategoriesByLabel(u, l) ==
    {c \in categories : c.label = l /\ (c.user_id = u \/ c.user_id = NULL)}

UpdateCategoryTarget(p, U, S, T) ==
    \E u \in U, s \in S, t \in T :
        LET r == Request("settarget", u, 0, s, t, 0) IN
        /\ pc[p] = "idle"
        /\ PoolHasConnection
        /\ \/ /\ s \in defaultCategories
              /\ CanLock(p, BySection(infodata \cup Others(p), u, s))
              /\ infodata' = (infodata \ BySection(infodata, u, s))
                               \cup SetTarget(BySection(infodata, u, s), t)
              /\ Answer(p, r, IF BySection(infodata, u, s) = {} THEN 404 ELSE 200,
                        infodata' # infodata)
              /\ UNCHANGED <<balance, categories, nextInfoId, nextCatId>>
           \/ /\ s \notin defaultCategories
              /\ {c.id : c \in CategoriesByLabel(u, s)} \cap CatsLockedByOther(p) = {}
              /\ categories' = (categories \ CategoriesByLabel(u, s))
                   \cup {[c EXCEPT !.target = t] : c \in CategoriesByLabel(u, s)}
              /\ Answer(p, r, IF CategoriesByLabel(u, s) = {} THEN 404 ELSE 200,
                        categories' # categories)
              /\ UNCHANGED <<balance, infodata, nextInfoId, nextCatId>>
           \/ /\ Answer(p, r, 500, FALSE)
              /\ UNCHANGED <<balance, infodata, categories, nextInfoId, nextCatId>>
        /\ Track

\* ------------------------------------------------------ account routes
\* jwt.sign(payload, key, { expiresIn }) and jwt.verify(token, key); a token
\* is its signing key, its userId claim and its iat / exp stamps
NoToken == [key |-> "none", userId |-> 0, iat |-> 0, exp |-> 0]
Sign(key, uid, life) == [key |-> key, userId |-> uid, iat |-> now, exp |-> now + life]
\* variant: the signature is not checked, only the expiry
VerifiesUnsigned(token, key) == now < token.exp
Verifies(token, key) == token.key = key /\ now < token.exp

\* a users row as its INSERT leaves it: refresh_token is not listed
Account(id, email, phone, gid, pw) ==
    [id |-> id, email |-> email, phone_number |-> phone, google_id |-> gid,
     password |-> pw, refresh_token |-> NoToken]

\* a registered route: router.<method>(path, ...chain) under app.use(mount)
Route(mount, method, path, chain) ==
    [mount |-> mount, method |-> method, path |-> path, chain |-> chain]
NoRoute == Route("", "", "", <<>>)

\* req.body, req.headers.authorization as its words, the route that matched
\* with the position in its chain, and req.user
\* req.query of GET /items; "" stands for a parameter that is absent and,
\* for _page and _limit, 0 for one that is absent, not a number, or 0
Query(page, limit, category, fromDate, toDate) ==
    [_page |-> page, _limit |-> limit, category |-> category,
     fromDate |-> fromDate, toDate |-> toDate]
NoQuery == Query(0, 0, "", 0, 0)

NoBody == [email |-> "", phone_number |-> "", google_id |-> "", password |-> "",
           token |-> NoToken, header |-> <<>>, route |-> NoRoute, at |-> 0,
           user |-> NoToken, query |-> NoQuery]
NoOut == [error |-> "", token |-> NoToken, refreshToken |-> NoToken,
          items |-> <<>>]

\* everything the account routes that use pool.query leave alone
ledgerVars == <<dbVars, inUse, loc, conn, held, tries, wrote, deposits, opening,
                dirty, rt>>

\* an account request arrives on a free slot
Arrive(p, kind, u, b, first) ==
    /\ pc[p] = "idle"
    /\ req' = [req EXCEPT ![p] = Request(kind, u, 0, "", 0, 0)]
    /\ body' = [body EXCEPT ![p] = b]
    /\ pc' = [pc EXCEPT ![p] = first]
    /\ UNCHANGED <<ledgerVars, resp, accounts, nextUserId, now, out, logins>>

\* res.status(status).json({ error, token })
Reply(p, status, error, token) ==
    /\ resp' = [resp EXCEPT ![p] = status]
    /\ out' = [out EXCEPT ![p] = [@ EXCEPT !.error = error, !.token = token]]
    /\ pc' = [pc EXCEPT ![p] = "done"]
    /\ UNCHANGED <<ledgerVars, req, body, now>>

\* the handler goes on to its next statement
Proceed(p, next) ==
    /\ pc' = [pc EXCEPT ![p] = next]
    /\ UNCHANGED <<ledgerVars, req, resp, body, out, now, accounts, nextUserId,
                   logins>>

\* the slot of a finished account request takes the next request
Close(p) ==
    /\ pc[p] = "done"
    /\ pc' = [pc EXCEPT ![p] = "idle"]
    /\ req' = [req EXCEPT ![p] = NoReq]
    /\ resp' = [resp EXCEPT ![p] = 0]
    /\ body' = [body EXCEPT ![p] = NoBody]
    /\ out' = [out EXCEPT ![p] = NoOut]
    /\ held' = [held EXCEPT ![p] = 0]
    /\ tries' = [tries EXCEPT ![p] = 0]
    /\ wrote' = [wrote EXCEPT ![p] = FALSE]
    /\ UNCHANGED <<dbVars, inUse, loc, conn, deposits, opening, dirty, rt,
                   accounts, nextUserId, now, logins>>

\* POST /auth/signup
\* if (!first_name || !last_name || !email || !password || !phone_number) 400
SignupArrive(p) ==
    \E e \in Emails, ph \in Phones \cup {""} :
        Arrive(p, "signup", 0,
               [NoBody EXCEPT !.email = e, !.phone_number = ph, !.password = "pw"],
               IF ph = "" THEN "s_missing" ELSE "s_phone")

SignupMissing(p) ==
    /\ pc[p] = "s_missing"
    /\ Reply(p, 400, "Missing required fields", NoToken)
    /\ UNCHANGED <<accounts, nextUserId, logins>>

\* SELECT phone_number FROM users WHERE phone_number = ?
ByPhone(rows, ph) == {a \in rows : a.phone_number = ph}
\* SELECT email FROM users WHERE email = ?
ByEmail(rows, e) == {a \in rows : a.email = e}

\* variant: the email is looked up before the phone number
SignupCheckEmailFirst(p) ==
    /\ pc[p] = "s_phone"
    /\ IF ByEmail(accounts, body[p].email) # {}
       THEN /\ Reply(p, 400, "Email already registered", NoToken)
            /\ UNCHANGED <<accounts, nextUserId, logins>>
       ELSE IF ByPhone(accounts, body[p].phone_number) # {}
       THEN /\ Reply(p, 400, "Phone number already registered", NoToken)
            /\ UNCHANGED <<accounts, nextUserId, logins>>
       ELSE Proceed(p, "s_email")

SignupCheckPhone(p) ==
    /\ pc[p] = "s_phone"
    /\ IF ByPhone(accounts, body[p].phone_number) # {}
       THEN /\ Reply(p, 400, "Phone number already registered", NoToken)
            /\ UNCHANGED <<accounts, nextUserId, logins>>
       ELSE Proceed(p, "s_email")

SignupCheckEmail(p) ==
    /\ pc[p] = "s_email"
    /\ IF ByEmail(accounts, body[p].email) # {}
       THEN /\ Reply(p, 400, "Email already registered", NoToken)
            /\ UNCHANGED <<accounts, nextUserId, logins>>
       ELSE Proceed(p, "s_insert")

\* INSERT INTO users (first_name, last_name, email, phone_number, password,
\*   profile_photo) VALUES (...)
SignupInsert(p) ==
    /\ pc[p] = "s_insert"
    /\ nextUserId <= MaxUsers
    /\ accounts' = accounts \cup
          {Account(nextUserId, body[p].email, body[p].phone_number, NullText,
                   body[p].password)}
    /\ nextUserId' = nextUserId + 1
    /\ Reply(p, 200, "", NoToken)
    /\ UNCHANGED logins

\* a query of the handler rejects: catch (dbError) 500
SignupFails(p) ==
    /\ pc[p] \in {"s_phone", "s_email", "s_insert"}
    /\ Reply(p, 500, "Database operation failed", NoToken)
    /\ UNCHANGED <<accounts, nextUserId, logins>>

\* POST /auth/auth/google
\* if (!google_id || !email) 400
GoogleArrive(p) ==
    \E g \in GoogleIds, e \in Emails :
        Arrive(p, "google", 0, [NoBody EXCEPT !.email = e, !.google_id = g], "g_sel")

\* SELECT * FROM users WHERE google_id = ?
ByGoogleId(rows, g) == {a \in rows : a.google_id = g}

GoogleSelect(p) ==
    /\ pc[p] = "g_sel"
    /\ IF ByGoogleId(accounts, body[p].google_id) # {}
       THEN /\ \E a \in ByGoogleId(accounts, body[p].google_id) :
                  Reply(p, 200, "", Sign("SECRET_KEY", a.id, AccessLife))
            /\ UNCHANGED <<accounts, nextUserId, logins>>
       ELSE Proceed(p, "g_ins")

\* INSERT INTO users (google_id, first_name, last_name, email, profile_photo)
GoogleInsert(p) ==
    /\ pc[p] = "g_ins"
    /\ nextUserId <= MaxUsers
    /\ accounts' = accounts \cup
          {Account(nextUserId, body[p].email, NullText, body[p].google_id, NullText)}
    /\ nextUserId' = nextUserId + 1
    /\ Reply(p, 200, "", Sign("SECRET_KEY", nextUserId, AccessLife))
    /\ UNCHANGED logins

\* if (err) return res.status(500)
GoogleFails(p) ==
    /\ pc[p] \in {"g_sel", "g_ins"}
    /\ Reply(p, 500, "Database error", NoToken)
    /\ UNCHANGED <<accounts, nextUserId, logins>>

\* PUT /profile, behind verifyToken: userId = req.user.userId
ProfileArrive(p) ==
    \E u \in 1..MaxUsers, e \in Emails \cup {"c@x.com", ""}, ph \in Phones \cup {""} :
        Arrive(p, "profile", u, [NoBody EXCEPT !.email = e, !.phone_number = ph],
               "p_get")

\* connection = await pool.promise().getConnection();
\* await connection.beginTransaction();
ProfileGet(p) ==
    /\ pc[p] = "p_get"
    /\ PoolHasConnection
    /\ inUse' = inUse + 1
    /\ held' = [held EXCEPT ![p] = 1]
    /\ conn' = [conn EXCEPT ![p] = TRUE]
    /\ pc' = [pc EXCEPT ![p] = "p_check"]
    /\ UNCHANGED <<dbVars, req, loc, tries, wrote, resp, keepVars>>

\* the handler answers; finally { if (connection) connection.release(); }
ReplyAndRelease(p, status, error) ==
    /\ resp' = [resp EXCEPT ![p] = status]
    /\ out' = [out EXCEPT ![p] = [NoOut EXCEPT !.error = error]]
    /\ pc' = [pc EXCEPT ![p] = "done"]
    /\ inUse' = inUse - held[p]
    /\ held' = [held EXCEPT ![p] = 0]
    /\ conn' = [conn EXCEPT ![p] = FALSE]
    /\ UNCHANGED <<dbVars, req, loc, tries, wrote, deposits, opening, dirty, rt,
                   body, now, logins, nextUserId>>

\* SELECT id FROM users WHERE email = ? AND id != ?
OthersByEmail(rows, e, u) == {a \in ByEmail(rows, e) : a.id # u}
\* SELECT id FROM users WHERE phone_number = ? AND id != ?
OthersByPhone(rows, ph, u) == {a \in ByPhone(rows, ph) : a.id # u}

\* if (email) {...}  if (phone_number) {...}  if (updateFields.length === 0);
\* the two SELECTs of one transaction read one snapshot of users
ProfileCheck(p) ==
    /\ pc[p] = "p_check"
    /\ LET b == body[p]
           u == req[p].user
       IN IF b.email # "" /\ OthersByEmail(accounts, b.email, u) # {}
          THEN ReplyAndRelease(p, 400, "Email already in use") /\ UNCHANGED accounts
          ELSE IF b.phone_number # "" /\ OthersByPhone(accounts, b.phone_number, u) # {}
          THEN ReplyAndRelease(p, 400, "Phone number already in use")
               /\ UNCHANGED accounts
          ELSE IF b.email = "" /\ b.phone_number = ""
          THEN ReplyAndRelease(p, 400, "No fields to update") /\ UNCHANGED accounts
          ELSE /\ pc' = [pc EXCEPT ![p] = "p_upd"]
               /\ UNCHANGED <<ledgerVars, req, resp, body, out, now, accounts,
                              nextUserId, logins>>

\* UPDATE users SET ... WHERE id = ?
SetProfile(a, b) ==
    [a EXCEPT !.email = IF b.email # "" THEN b.email ELSE @,
              !.phone_number = IF b.phone_number # "" THEN b.phone_number ELSE @]

\* the UPDATE, if (result.affectedRows === 0) 404, await connection.commit()
ProfileUpdate(p) ==
    /\ pc[p] = "p_upd"
    /\ LET mine == {a \in accounts : a.id = req[p].user}
       IN IF mine = {}
          THEN ReplyAndRelease(p, 404, "User not found or no changes made.")
               /\ UNCHANGED accounts
          ELSE /\ accounts' = (accounts \ mine) \cup {SetProfile(a, body[p]) : a \in mine}
               /\ ReplyAndRelease(p, 200, "")

\* a statement rejects: catch { rollback; 500 } finally { release }
ProfileFails(p) ==
    /\ pc[p] \in {"p_get", "p_check", "p_upd"}
    /\ ReplyAndRelease(p, 500, "Failed to update profile")
    /\ UNCHANGED accounts

\* POST /auth/login
\* if (!email || !password) 400
LoginArrive(p, emails) ==
    \E e \in emails, pw \in Passwords \cup {""} :
        Arrive(p, "login", 0, [NoBody EXCEPT !.email = e, !.password = pw],
               IF pw = "" THEN "l_missing" ELSE "l_sel")

LoginMissing(p) ==
    /\ pc[p] = "l_missing"
    /\ Reply(p, 400, "Email and password are required", NoToken)
    /\ UNCHANGED <<accounts, nextUserId, logins>>

\* SELECT * FROM users WHERE email = ?; user = results[0];
\* bcrypt.compare(password, user.password); the two jwt.sign
LoginSelect(p) ==
    /\ pc[p] = "l_sel"
    /\ IF ByEmail(accounts, body[p].email) = {}
       THEN /\ Reply(p, 401, "Invalid email or password", NoToken)
            /\ UNCHANGED <<accounts, nextUserId, logins>>
       ELSE \E user \in ByEmail(accounts, body[p].email) :
              IF user.password = NullText
              THEN /\ Reply(p, 500, "Error during authentication", NoToken)
                   /\ UNCHANGED <<accounts, nextUserId, logins>>
              ELSE IF user.password # body[p].password
              THEN /\ Reply(p, 401, "Invalid email or password", NoToken)
                   /\ UNCHANGED <<accounts, nextUserId, logins>>
              ELSE /\ out' = [out EXCEPT ![p] =
                                [NoOut EXCEPT
                                   !.token = Sign("SECRET_KEY", user.id, AccessLife),
                                   !.refreshToken =
                                       Sign("REFRESH_KEY", user.id, RefreshLife)]]
                   /\ pc' = [pc EXCEPT ![p] = "l_upd"]
                   /\ UNCHANGED <<ledgerVars, req, resp, body, now, accounts,
                                  nextUserId, logins>>

\* variant: a refresh token already stored is kept
KeepRefreshToken(rows, uid, token) ==
    {IF a.id = uid /\ a.refresh_token = NoToken
     THEN [a EXCEPT !.refresh_token = token] ELSE a : a \in rows}

\* UPDATE users SET refresh_token = ? WHERE id = ?
SetRefreshToken(rows, uid, token) ==
    {IF a.id = uid THEN [a EXCEPT !.refresh_token = token] ELSE a : a \in rows}

\* the UPDATE, then res.json({ token, refreshToken, user })
LoginStore(p) ==
    /\ pc[p] = "l_upd"
    /\ LET token == out[p].refreshToken
       IN /\ Len(logins[token.userId]) < MaxLogins
          /\ accounts' = SetRefreshToken(accounts, token.userId, token)
          /\ logins' = [logins EXCEPT ![token.userId] = Append(@, token)]
    /\ Reply(p, 200, "", out[p].token)
    /\ UNCHANGED nextUserId

\* a query rejects: catch (error) 500
LoginFails(p) ==
    /\ pc[p] \in {"l_sel", "l_upd"}
    /\ Reply(p, 500, "Error during authentication", NoToken)
    /\ UNCHANGED <<accounts, nextUserId, logins>>

\* the refresh tokens a client can present: any token of the shape login
\* signs, under the refresh key or another key, or none
Presentable(users) ==
    {NoToken} \cup
    {[key |-> k, userId |-> u, iat |-> t, exp |-> t + RefreshLife] :
        k \in {"REFRESH_KEY", "SECRET_KEY"}, u \in users, t \in 0..now}

\* POST /auth/refresh-token
RotateArrive(p, users) ==
    \E token \in Presentable(users) :
        Arrive(p, "rotate", 0, [NoBody EXCEPT !.token = token], "r_ver")

\* if (!refreshToken) 401; decoded = jwt.verify(refreshToken, REFRESH_KEY),
\* whose throw the catch answers with 401
RotateVerify(p) ==
    /\ pc[p] = "r_ver"
    /\ IF body[p].token = NoToken
       THEN /\ Reply(p, 401, "Refresh token required", NoToken)
            /\ UNCHANGED <<accounts, nextUserId, logins>>
       ELSE IF ~Verifies(body[p].token, "REFRESH_KEY")
       THEN /\ Reply(p, 401, "Invalid refresh token, details", NoToken)
            /\ UNCHANGED <<accounts, nextUserId, logins>>
       ELSE Proceed(p, "r_sel")

\* variant: the row is looked up by the decoded id alone
ByDecodedId(rows, token) == {a \in rows : a.id = token.userId}

\* SELECT * FROM users WHERE id = ? AND refresh_token = ?
ByIdAndRefreshToken(rows, token) ==
    {a \in rows : a.id = token.userId /\ a.refresh_token = token}

\* if (users.length === 0) 401; res.json({ token: newToken })
RotateSelect(p) ==
    /\ pc[p] = "r_sel"
    /\ IF ByIdAndRefreshToken(accounts, body[p].token) = {}
       THEN Reply(p, 401, "Invalid refresh token", NoToken)
       ELSE \E user \in ByIdAndRefreshToken(accounts, body[p].token) :
              Reply(p, 200, "", Sign("SECRET_KEY", user.id, AccessLife))
    /\ UNCHANGED <<accounts, nextUserId, logins>>

\* the SELECT rejects: catch (error) 401
RotateFails(p) ==
    /\ pc[p] = "r_sel"
    /\ Reply(p, 401, "Invalid refresh token, details", NoToken)
    /\ UNCHANGED <<accounts, nextUserId, logins>>

\* a second passes on the clock the token stamps are read from
Tick ==
    /\ now < MaxClock
    /\ now' = now + 1
    /\ UNCHANGED <<dbVars, inUse, procVars, deposits, opening, dirty, rt,
                   accounts, nextUserId, body, out, logins>>

\* ------------------------------------------------------ routing and gate
Gated == <<"verifyToken", "handler">>
GatedUpload == <<"verifyToken", "upload", "handler">>
Open == <<"handler">>

\* routes/expenseRoutes, mounted at /items
ItemRoutes ==
    {Route("/items", m[1], m[2], Gated) :
        m \in {<<"GET", "/">>, <<"GET", "/summary">>, <<"GET", "/category-summary">>,
               <<"GET", "/summary/monthly">>, <<"GET", "/summary/weekly">>,
               <<"GET", "/summary/daily">>, <<"GET", "/total-by-category">>,
               <<"GET", "/custom-categories">>, <<"GET", "/category-target">>,
               <<"POST", "/custom-categories">>, <<"POST", "/add-category">>,
               <<"PUT", "/update-category-target">>,
               <<"DELETE", "/custom-categories/:id">>, <<"POST", "/">>,
               <<"DELETE", "/:id">>, <<"PUT", "/:id">>}}

\* variant: the profile update is registered without verifyToken
ProfileRoutesOpenUpdate ==
    {Route("/profile", m[1], m[2], Gated) :
        m \in {<<"GET", "/">>, <<"GET", "/all-transactions">>, <<"GET", "/balance">>,
               <<"GET", "/income-transactions">>,
               <<"DELETE", "/income-transactions/delete/:id">>,
               <<"POST", "/balance/add">>}}
    \cup {Route("/profile", "PUT", "/", <<"upload", "handler">>)}

\* routes/profileRoutes, mounted at /profile
ProfileRoutes ==
    {Route("/profile", m[1], m[2], Gated) :
        m \in {<<"GET", "/">>, <<"GET", "/all-transactions">>, <<"GET", "/balance">>,
               <<"GET", "/income-transactions">>,
               <<"DELETE", "/income-transactions/delete/:id">>,
               <<"POST", "/balance/add">>}}
    \cup {Route("/profile", "PUT", "/", GatedUpload)}

\* routes/authRoutes, mounted at /auth
AuthRoutes ==
    {Route("/auth", "POST", "/signup", <<"upload", "handler">>),
     Route("/auth", "POST", "/login", Open),
     Route("/auth", "POST", "/refresh-token", Open),
     Route("/auth", "POST", "/auth/google", Open)}

Routes == AuthRoutes \cup ProfileRoutes \cup ItemRoutes

\* the Authorization headers a client can send: none, a single word, or a
\* scheme and a token signed under the access key, another key, or garbage
Headers ==
    {<<>>, <<"Bearer">>} \cup
    {<<"Bearer", [key |-> k, userId |-> 1, iat |-> t, exp |-> t + AccessLife]>> :
        k \in {"SECRET_KEY", "REFRESH_KEY", "garbage"}, t \in 0..now}

\* a request matches route r and enters its chain
RouteArrive(p, routes) ==
    \E r \in routes, h \in Headers :
        Arrive(p, "route", 0, [NoBody EXCEPT !.route = r, !.header = h, !.at = 1],
               "chain")

\* the function of the chain the request is at
Link(p) == body[p].route.chain[body[p].at]

\* next()
CallNext(p, b) ==
    /\ body' = [body EXCEPT ![p] = [b EXCEPT !.at = @ + 1]]
    /\ UNCHANGED <<ledgerVars, pc, req, resp, out, now, accounts, nextUserId,
                   logins>>

\* bearerHeader.split(" ")[1]
SecondWord(header) == IF Len(header) >= 2 THEN header[2] ELSE NoToken

\* verifyToken(req, res, next)
verifyToken(p) ==
    /\ pc[p] = "chain"
    /\ Link(p) = "verifyToken"
    /\ LET bearerHeader == body[p].header
           token == SecondWord(bearerHeader)
       IN IF bearerHeader = <<>>
          THEN /\ Reply(p, 401, "No authorization header", NoToken)
               /\ UNCHANGED <<accounts, nextUserId, logins>>
          ELSE IF token = NoToken
          THEN /\ Reply(p, 401, "No token provided", NoToken)
               /\ UNCHANGED <<accounts, nextUserId, logins>>
          ELSE IF ~Verifies(token, "SECRET_KEY")
          THEN /\ Reply(p, 403,
                        IF token.key = "SECRET_KEY" THEN "Token expired"
                        ELSE "Invalid token", NoToken)
               /\ UNCHANGED <<accounts, nextUserId, logins>>
          ELSE CallNext(p, [body[p] EXCEPT !.user = token])

\* upload.single('profile_photo'): next(), or the error middleware's 400
Upload(p) ==
    /\ pc[p] = "chain"
    /\ Link(p) = "upload"
    /\ \/ CallNext(p, body[p])
       \/ /\ Reply(p, 400, "File upload error", NoToken)
          /\ UNCHANGED <<accounts, nextUserId, logins>>

\* the route's handler runs its statements on the store and answers
Handler(p) ==
    /\ pc[p] = "chain"
    /\ Link(p) = "handler"
    /\ \E status \in {200, 500} : Reply(p, status, "", NoToken)
    /\ UNCHANGED <<accounts, nextUserId, logins>>

\* ------------------------------------------------------------ listing
\* GET /items, behind verifyToken: userId = req.user.userId
ListArrive(p, U) ==
    \E u \in U, page \in (-1)..MaxPage, limit \in (-1)..MaxLimit,
       category \in {"", "All", "Food"}, fromDate, toDate \in {0} \cup Dates :
        Arrive(p, "list", u,
               [NoBody EXCEPT !.query = Query(page, limit, category, fromDate, toDate)],
               "i_count")

\* parseInt(req.query._page) || 1 and parseInt(req.query._limit) || 10
PageOf(q) == IF q._page = 0 THEN 1 ELSE q._page
LimitOf(q) == IF q._limit = 0 THEN DefaultLimit ELSE q._limit
\* const offset = (page - 1) * limit;
OffsetOf(q) == (PageOf(q) - 1) * LimitOf(q)

\* WHERE i.user_id = ? [AND section = ?] [AND date >= ?] [AND date <= ?]
Matching(rows, u, q) ==
    {i \in rows :
        /\ i.user_id = u
        /\ (q.category # "" /\ q.category # "All") => i.section = q.category
        /\ q.fromDate # 0 => i.date >= q.fromDate
        /\ q.toDate # 0 => i.date <= q.toDate}

\* SELECT COUNT(*) AS total ...: totalItems is computed and not sent
ListCount(p) ==
    /\ pc[p] = "i_count"
    /\ Proceed(p, "i_sel")

\* ORDER BY date DESC, id DESC
Before(a, b) == a.date > b.date \/ (a.date = b.date /\ a.id >= b.id)

RECURSIVE Sorted(_)
Sorted(rows) ==
    IF rows = {} THEN <<>>
    ELSE LET first == CHOOSE a \in rows : \A b \in rows : Before(a, b)
         IN <<first>> \o Sorted(rows \ {first})

\* LEFT JOIN categories c ON i.section = c.label AND c.user_id = i.user_id:
\* one result row per matching category row, one with NULL columns if none;
\* rows of one item tie under the ORDER BY and come as the engine reads them
RECURSIVE Joined(_, _, _)
Joined(i, cats, ascending) ==
    IF cats = {} THEN <<>>
    ELSE LET c == CHOOSE x \in cats :
                     \A y \in cats : IF ascending THEN x.id <= y.id ELSE x.id >= y.id
         IN <<[id |-> i.id, category |-> c.id]>> \o Joined(i, cats \ {c}, ascending)

LeftJoin(table, i, ascending) ==
    LET cats == {c \in table : c.label = i.section /\ c.user_id = i.user_id}
    IN IF cats = {} THEN <<[id |-> i.id, category |-> NULL]>>
       ELSE Joined(i, cats, ascending)

RECURSIVE Flatten(_, _, _)
Flatten(table, items, ascending) ==
    IF items = <<>> THEN <<>>
    ELSE LeftJoin(table, Head(items), ascending)
           \o Flatten(table, Tail(items), ascending)

\* LIMIT ? OFFSET ?
Slice(rows, limit, offset) ==
    IF offset >= Len(rows) THEN <<>>
    ELSE SubSeq(rows, offset + 1,
                IF offset + limit < Len(rows) THEN offset + limit ELSE Len(rows))

\* the result of the listing query for user u and query parameters q
ListQueryOver(rows, table, u, q, ascending) ==
    Slice(Flatten(table, Sorted(Matching(rows, u, q)), ascending),
          LimitOf(q), OffsetOf(q))

ListQuery(u, q, ascending) == ListQueryOver(infodata, categories, u, q, ascending)

\* pool.query(query, queryParams, ...): res.json(results); the engine
\* rejects a negative LIMIT or OFFSET, which ListFails answers
ListSelect(p) ==
    /\ pc[p] = "i_sel"
    /\ LimitOf(body[p].query) >= 0
    /\ OffsetOf(body[p].query) >= 0
    /\ \E ascending \in BOOLEAN :
          /\ resp' = [resp EXCEPT ![p] = 200]
          /\ out' = [out EXCEPT ![p] =
                       [NoOut EXCEPT !.items = ListQuery(req[p].user, body[p].query,
                                                          ascending)]]
          /\ pc' = [pc EXCEPT ![p] = "done"]
    /\ UNCHANGED <<ledgerVars, req, body, now, accounts, nextUserId, logins>>

\* either query calls back with an error: 500
ListFails(p) ==
    /\ pc[p] \in {"i_count", "i_sel"}
    /\ Reply(p, 500, "Failed to fetch items.", NoToken)
    /\ UNCHANGED <<accounts, nextUserId, logins>>

\* ------------------------------------------- GET /items/category-target
\* SELECT target FROM infodata WHERE section = ? AND user_id = ?
\*   ORDER BY id DESC LIMIT 1
LatestTarget(u, s) ==
    {r.target : r \in {x \in BySection(infodata, u, s) :
                          \A y \in BySection(infodata, u, s) : y.id <= x.id}}

\* SELECT target FROM categories WHERE label = ? AND user_id = ? LIMIT 1
OwnCategoryTarget(u, l) ==
    {c.target : c \in {x \in categories : x.label = l /\ x.user_id = u}}

\* const target = rows.length > 0 ? rows[0].target : 0;
TargetRead(u, s) ==
    LET rows == IF s \in defaultCategories THEN LatestTarget(u, s)
                ELSE OwnCategoryTarget(u, s)
    IN IF rows = {} THEN {0} ELSE rows

CategoryTarget(p, U, S) ==
    \E u \in U, s \in S :
        /\ pc[p] = "idle"
        /\ PoolHasConnection
        /\ req' = [req EXCEPT ![p] = Request("gettarget", u, 0, s, 0, 0)]
        /\ pc' = [pc EXCEPT ![p] = "done"]
        /\ \/ \E t \in TargetRead(u, s) :
                 /\ resp' = [resp EXCEPT ![p] = 200]
                 /\ out' = [out EXCEPT ![p] = [NoOut EXCEPT !.items = t]]
           \/ /\ resp' = [resp EXCEPT ![p] = 500]
              /\ out' = [out EXCEPT ![p] = [NoOut EXCEPT !.error = "Internal server error."]]
        /\ UNCHANGED <<dbVars, inUse, loc, conn, held, tries, wrote, deposits,
                       opening, dirty, rt, accounts, nextUserId, now, body, logins>>

\* ------------------------------------------------------------ summaries
\* the calendar: a DATETIME is a tick; 'YYYY-MM-DD' compares as its midnight
MonthsPerYear == 12
DaysPerWeek == 7
DefaultMonths == 6
DefaultWeeks == 4
\* today = new Date(): the first day of month ThisMonth
ThisMonth == 13
ThisDay == ThisMonth * DaysPerMonth

Midnight(day) == day * TicksPerDay
At(month, day, tick) == Midnight(month * DaysPerMonth + day) + tick
DayOf(date) == date \div TicksPerDay
MonthOf(date) == DayOf(date) \div DaysPerMonth
\* DATE_FORMAT(date, '%b')
MonthName(date) == MonthOf(date) % MonthsPerYear

\* variant: the Income rows count as expenses
ValueOf(r) == r.value

\* CASE WHEN section != 'Income' THEN value ELSE 0 END
ExpenseOf(r) == IF r.section # "Income" THEN r.value ELSE 0

\* SUM(CASE WHEN section != 'Income' THEN value ELSE 0 END)
RECURSIVE TotalExpenses(_)
TotalExpenses(rows) ==
    IF rows = {} THEN 0
    ELSE LET r == CHOOSE x \in rows : TRUE
         IN ExpenseOf(r) + TotalExpenses(rows \ {r})

\* SUM(value)
RECURSIVE SumValue(_)
SumValue(rows) ==
    IF rows = {} THEN 0
    ELSE LET r == CHOOSE x \in rows : TRUE
         IN r.value + SumValue(rows \ {r})

OfUser(rows, u) == {r \in rows : r.user_id = u}

\* GET /items/summary: { totalExpenses, totalCount }
Summary(rows, u, q) ==
    [totalExpenses |-> TotalExpenses(Matching(rows, u, q)),
     totalCount |-> Cardinality(Matching(rows, u, q))]

\* GET /items/category-summary: SUM(value) ... GROUP BY section
CategorySummary(rows, u) ==
    {[section |-> s, total_expenses |-> SumValue(BySection(rows, u, s))] :
        s \in {r.section : r \in OfUser(rows, u)}}

\* GET /items/total-by-category
TotalByCategory(rows, u, category) == SumValue(BySection(rows, u, category))

\* parseInt(req.query.months) || 6 and parseInt(req.query.weeks) || 4
MonthsOf(raw) == IF raw = 0 THEN DefaultMonths ELSE raw
WeeksOf(raw) == IF raw = 0 THEN DefaultWeeks ELSE raw

\* GET /items/summary/monthly: WHERE date >= startDate GROUP BY month, and the
\* lookup of each label of the window
Monthly(rows, u, months) ==
    LET startDate == At(ThisMonth - (months - 1), 0, 0)
        since == {r \in OfUser(rows, u) : r.date >= startDate}
        fetched(name) == TotalExpenses({r \in since : MonthName(r.date) = name})
    IN [k \in 1..months |->
          LET label == (ThisMonth - (months - k)) % MonthsPerYear
          IN [month |-> label, total_expenses |-> fetched(label)]]

\* GET /items/summary/weekly: one query BETWEEN startDate AND endDate a week
Weekly(rows, u, weeks) ==
    [k \in 1..weeks |->
        LET endDate == ThisDay - (weeks - k) * DaysPerWeek
            startDate == endDate - (DaysPerWeek - 1)
        IN [week |-> k,
            total_expenses |->
                TotalExpenses({r \in OfUser(rows, u) :
                    r.date >= Midnight(startDate) /\ r.date <= Midnight(endDate)})]]

\* GET /items/summary/daily: WHERE date BETWEEN ? AND ? GROUP BY date groups by
\* the column; rows.forEach(fetchedDataMap.set) keeps, for a day, the group
\* that comes last among those the ORDER BY on the formatted date ties
Daily(rows, u, startDate, endDate) ==
    LET between == {r \in OfUser(rows, u) :
                       r.date >= Midnight(startDate) /\ r.date <= Midnight(endDate)}
        group(date) == {r \in between : r.date = date}
        fetched(day) ==
            IF \E r \in between : DayOf(r.date) = day
            THEN {TotalExpenses(group(r.date)) : r \in {x \in between : DayOf(x.date) = day}}
            ELSE {0}
    IN {res \in [1..(endDate - startDate + 1) -> [date : startDate..endDate,
                                                  total_expenses : 0..(MaxRows * 2)]] :
           \A k \in DOMAIN res :
               /\ res[k].date = startDate + k - 1
               /\ res[k].total_expenses \in fetched(res[k].date)}

SummaryKinds == {"summary", "category-summary", "total-by-category", "monthly",
                 "weekly", "daily"}

\* req.query of the summary routes
SummaryQuery(kind, category, fromDate, toDate, window) ==
    [kind |-> kind, category |-> category, fromDate |-> fromDate,
     toDate |-> toDate, window |-> window]

\* a summary request of user u, behind verifyToken
SummaryArrive(p, U, days) ==
    \E u \in U, kind \in SummaryKinds, category \in {"", "Food", "Income"},
       fromDate, toDate \in days,
       window \in (0..MaxWindow) \cup {MonthsPerYear + 1} :
        /\ kind \in {"category-summary"}
              => (category = "" /\ fromDate = 0 /\ toDate = 0 /\ window = 0)
        /\ kind = "total-by-category" => (fromDate = 0 /\ toDate = 0 /\ window = 0)
        /\ kind \in {"monthly", "weekly"} => (category = "" /\ fromDate = 0 /\ toDate = 0)
        /\ kind = "weekly" => window <= MaxWindow
        /\ kind = "daily" => (category = "" /\ window = 0)
        /\ kind = "summary" => window = 0
        /\ Arrive(p, "aggregate", u,
                  [NoBody EXCEPT !.query = SummaryQuery(kind, category, fromDate,
                                                        toDate, window)],
                  "q_run")

\* what the route's query and the code after it answer with
SummaryResults(u, q) ==
    CASE q.kind = "summary" ->
            {Summary(infodata, u, [q EXCEPT !.fromDate = Midnight(@),
                                            !.toDate = Midnight(@)])}
      [] q.kind = "category-summary" -> {CategorySummary(infodata, u)}
      [] q.kind = "total-by-category" -> {TotalByCategory(infodata, u, q.category)}
      [] q.kind = "monthly" -> {Monthly(infodata, u, MonthsOf(q.window))}
      [] q.kind = "weekly" -> {Weekly(infodata, u, WeeksOf(q.window))}
      [] q.kind = "daily" -> Daily(infodata, u, q.fromDate, q.toDate)

\* the validations of the route, then its query and res.json
SummaryRun(p) ==
    /\ pc[p] = "q_run"
    /\ LET q == body[p].query IN
       IF \/ (q.kind = "total-by-category" /\ q.category = "")
          \/ (q.kind = "daily" /\ (q.fromDate = 0 \/ q.toDate = 0))
       THEN Reply(p, 400, "missing query parameter", NoToken)
       ELSE \E result \in SummaryResults(req[p].user, q) :
              /\ resp' = [resp EXCEPT ![p] = 200]
              /\ out' = [out EXCEPT ![p] = [NoOut EXCEPT !.items = result]]
              /\ pc' = [pc EXCEPT ![p] = "done"]
              /\ UNCHANGED <<ledgerVars, req, body, now>>
    /\ UNCHANGED <<accounts, nextUserId, logins>>

\* the query rejects: catch (err) 500
SummaryFails(p) ==
    /\ pc[p] = "q_run"
    /\ Reply(p, 500, "Failed to fetch summary.", NoToken)
    /\ UNCHANGED <<accounts, nextUserId, logins>>

NoRt == [status |-> "off"]

InitStore ==
    /\ infodata = {}
    /\ nextInfoId = 1
    /\ tx = [p \in Procs |-> NoTx]
    /\ inUse = 0
    /\ pc = [p \in Procs |-> "idle"]
    /\ req = [p \in Procs |-> NoReq]
    /\ loc = [p \in Procs |-> NoLoc]
    /\ conn = [p \in Procs |-> FALSE]
    /\ held = [p \in Procs |-> 0]
    /\ tries = [p \in Procs |-> 0]
    /\ wrote = [p \in Procs |-> FALSE]
    /\ resp = [p \in Procs |-> 0]
    /\ deposits = [u \in Users |-> [a \in 1..MaxAmount |-> 0]]
    /\ dirty = [p \in Procs |-> FALSE]
    /\ now = 0
    /\ body = [p \in Procs |-> NoBody]
    /\ out = [p \in Procs |-> NoOut]
    /\ logins = [u \in 1..MaxUsers |-> <<>>]

\* the users rows of Users, as their signups inserted them
SignedUp ==
    {Account(1, "a@x.com", "555-1", NullText, "pw"),
     Account(2, "b@x.com", "555-2", NullText, "pw")}

\* the store right after the users signed up
Init ==
    /\ InitStore
    /\ categories = {}
    /\ nextCatId = 1
    /\ accounts = SignedUp
    /\ nextUserId = Cardinality(Users) + 1
    /\ opening = [u \in Users |-> NULL]
    /\ balance = opening
    /\ rt = NoRt

\* the store after deposits and expenses that left every user a balance and
\* no row
InitFunded ==
    /\ InitStore
    /\ categories = {}
    /\ nextCatId = 1
    /\ accounts = SignedUp
    /\ nextUserId = Cardinality(Users) + 1
    /\ opening = [u \in Users |-> OpeningBalance]
    /\ balance = opening
    /\ rt = NoRt

\* balance/add requests alone: the balance of user 1 is still NULL, that of
\* the other users was left by earlier deposits
InitAdd ==
    /\ InitStore
    /\ categories = {}
    /\ nextCatId = 1
    /\ accounts = SignedUp
    /\ nextUserId = Cardinality(Users) + 1
    /\ opening = [u \in Users |-> IF u = 1 THEN NULL ELSE OpeningBalance]
    /\ balance = opening
    /\ rt = NoRt

\* the Income rows two deposits of user 1 have left, with the balance they
\* brought it to
Deposited == {InfoRow(1, 1, "Income", 1, 0), InfoRow(2, 1, "Income", 2, 0)}

InitDeposited ==
    /\ infodata = Deposited
    /\ nextInfoId = MaxRows + 1
    /\ tx = [p \in Procs |-> NoTx]
    /\ inUse = 0
    /\ pc = [p \in Procs |-> "idle"]
    /\ req = [p \in Procs |-> NoReq]
    /\ loc = [p \in Procs |-> NoLoc]
    /\ conn = [p \in Procs |-> FALSE]
    /\ held = [p \in Procs |-> 0]
    /\ tries = [p \in Procs |-> 0]
    /\ wrote = [p \in Procs |-> FALSE]
    /\ resp = [p \in Procs |-> 0]
    /\ deposits = [u \in Users |-> [a \in 1..MaxAmount |-> 0]]
    /\ dirty = [p \in Procs |-> FALSE]
    /\ now = 0
    /\ body = [p \in Procs |-> NoBody]
    /\ out = [p \in Procs |-> NoOut]
    /\ logins = [u \in 1..MaxUsers |-> <<>>]
    /\ categories = {}
    /\ nextCatId = 1
    /\ accounts = SignedUp
    /\ nextUserId = Cardinality(Users) + 1
    /\ opening = [u \in Users |-> OpeningBalance]
    /\ balance = opening
    /\ rt = NoRt

\* a run of retryOperation, with maxRetries given or defaulted
InitRetry ==
    /\ InitStore
    /\ categories = {}
    /\ nextCatId = 1
    /\ accounts = SignedUp
    /\ nextUserId = Cardinality(Users) + 1
    /\ opening = [u \in Users |-> NULL]
    /\ balance = opening
    /\ rt \in {RetryStart(m) : m \in 1..MaxRetriesArg}

\* ------------------------------------------------------ specifications
EndSteps(p) ==
    \/ Commit(p)
    \/ Respond(p)
    \/ Catch(p)
    \/ Finish(p)

AddSteps(p, U) ==
    \/ StartAdd(p, U)
    \/ AddValidate(p)
    \/ AddAcquire(p)
    \/ AddSelect(p)
    \/ AddUpdate(p)
    \/ AddInsert(p)

IncDelSteps(p, U) ==
    \/ StartIncDel(p, U)
    \/ IncDelAcquire(p)
    \/ IncDelSelect(p)
    \/ IncDelDelete(p)
    \/ IncDelLock(p)
    \/ IncDelUpdate(p)

CatDelSteps(p, U) ==
    \/ StartCatDel(p, U)
    \/ CatDelAcquire(p)
    \/ CatDelSelect(p)
    \/ CatDelInfodata(p)
    \/ CatDelCategory(p)

UpdateSteps(p, U, S, T) ==
    \/ StartUpdate(p, U, S, T)
    \/ UpdGet(p)
    \/ UpdBegin(p)
    \/ UpdTarget(p)
    \/ UpdItem(p)
    \/ UpdRead(p)

\* PUT /items/:id answers from UpdRead, not from Respond
UpdateEnd(p) ==
    \/ Commit(p)
    \/ Catch(p)
    \/ Finish(p)

\* the retried acquire step of PUT /items/:id rejects
AcquireFailures(p) ==
    \/ UpdGetFails(p)
    \/ UpdBeginFails(p)

SignupSteps(p) ==
    \/ SignupArrive(p)
    \/ SignupMissing(p)
    \/ SignupCheckPhone(p)
    \/ SignupCheckEmail(p)
    \/ SignupInsert(p)
    \/ SignupFails(p)

GoogleSteps(p) ==
    \/ GoogleArrive(p)
    \/ GoogleSelect(p)
    \/ GoogleInsert(p)
    \/ GoogleFails(p)

ProfileSteps(p) ==
    \/ ProfileArrive(p)
    \/ ProfileGet(p)
    \/ ProfileCheck(p)
    \/ ProfileUpdate(p)
    \/ ProfileFails(p)

LoginSteps(p, emails) ==
    \/ LoginArrive(p, emails)
    \/ LoginMissing(p)
    \/ LoginSelect(p)
    \/ LoginStore(p)
    \/ LoginFails(p)

RotateSteps(p, users) ==
    \/ RotateArrive(p, users)
    \/ RotateVerify(p)
    \/ RotateSelect(p)
    \/ RotateFails(p)

\* the whole program: every route, any user, any parameters
Next ==
    \E p \in Pair :
          \/ AddSteps(p, Users)
          \/ IncDelSteps(p, Users)
          \/ CatDelSteps(p, Users)
          \/ UpdateSteps(p, Users, Sections, Targets \cup {UNDEF})
          \/ AcquireFailures(p)
          \/ AddExpense(p, Users, Sections, Targets)
          \/ DeleteItem(p, Users)
          \/ AddCategory(p, Users, Sections, Targets)
          \/ UpdateCategoryTarget(p, Users, Sections, Targets)
          \/ EndSteps(p)
          \/ SignupSteps(p)
          \/ GoogleSteps(p)
          \/ ProfileSteps(p)
          \/ LoginSteps(p, Emails)
          \/ RotateSteps(p, 1..(MaxUsers + 1))

Spec == Init /\ [][Next]_vars

\* The specifications below are Spec with the requests narrowed to the
\* routes and parameters the properties checked under them are about.

\* concurrent balance/add requests
NextAdd == \E p \in Pair : AddSteps(p, Users) \/ EndSteps(p)

SpecAdd == InitAdd /\ [][NextAdd]_vars

\* category cascade deletes next to item creations
NextCascade ==
    \E p \in Pair :
          \/ CatDelSteps(p, {1})
          \/ AddCategory(p, {1}, {"Gym"}, {0})
          \/ AddExpense(p, Users, {"Gym", "Food"}, {0})
          \/ EndSteps(p)

SpecCascade == Init /\ [][NextCascade]_vars

\* item creations and item updates, one request at a time
NextItems ==
    \E p \in {1} :
          \/ UpdateSteps(p, Users, {"Food", "Gym"}, {5, UNDEF})
          \/ AddExpense(p, Users, {"Food", "Gym"}, Targets)
          \/ UpdateEnd(p)

SpecItems == Init /\ [][NextItems]_vars

\* item updates whose acquire step may reject
NextPool ==
    \E p \in Pair :
          \/ UpdateSteps(p, {1}, {"Food"}, {5})
          \/ AcquireFailures(p)
          \/ UpdateEnd(p)

SpecPool == Init /\ [][NextPool]_vars

\* the account routes on an empty users table
InitAccounts ==
    /\ InitStore
    /\ categories = {}
    /\ nextCatId = 1
    /\ accounts = {}
    /\ nextUserId = 1
    /\ opening = [u \in Users |-> NULL]
    /\ balance = opening
    /\ rt = NoRt

\* signups and Google registrations
NextSignup == \E p \in Pair : SignupSteps(p) \/ GoogleSteps(p) \/ Close(p)

SpecSignup == InitAccounts /\ [][NextSignup]_vars

\* profile updates of the signed-up users
NextProfile == \E p \in Pair : ProfileSteps(p) \/ Close(p)

SpecProfile == Init /\ [][NextProfile]_vars

\* logins of user 1 and rotations of tokens naming user 1 or no user, while
\* time passes
NextSession ==
    \/ \E p \in Pair :
          \/ LoginSteps(p, {"a@x.com"})
          \/ RotateSteps(p, {1, MaxUsers + 1})
          \/ Close(p)
    \/ Tick

SpecSession == Init /\ [][NextSession]_vars

\* requests to every registered route with any Authorization header, next
\* to requests to GET /items
NextGate ==
    \/ \E p \in Pair :
          \/ RouteArrive(p, IF p = 1 THEN Routes
                            ELSE {Route("/items", "GET", "/", Gated)})
          \/ verifyToken(p)
          \/ Upload(p)
          \/ Handler(p)
          \/ Close(p)
    \/ Tick

SpecGate == Init /\ [][NextGate]_vars

\* user 1 has added the category Food twice: POST /items/add-category
\* inserts whatever label it is given
InitListing ==
    /\ InitStore
    /\ categories = {CatRow(1, 1, "Food", 0), CatRow(2, 1, "Food", 0)}
    /\ nextCatId = 3
    /\ accounts = SignedUp
    /\ nextUserId = Cardinality(Users) + 1
    /\ opening = [u \in Users |-> NULL]
    /\ balance = opening
    /\ rt = NoRt

ListSteps(p, U) ==
    \/ ListArrive(p, U)
    \/ ListCount(p)
    \/ ListSelect(p)
    \/ ListFails(p)

\* item creations with any date and listings, one request at a time
NextListing ==
    \E p \in {1} :
          \/ AddExpenseOn(p, Users, {"Food", "Gym"}, {0}, Dates)
          \/ ListSteps(p, {1})
          \/ Close(p)

SpecListing == InitListing /\ [][NextListing]_vars

\* the dates of the rows the summaries are taken over: a year before this
\* month, the two days of last month at both times of day, and this month
SummaryDates ==
    {At(ThisMonth - MonthsPerYear, 0, 0), At(ThisMonth - 1, 0, 0),
     At(ThisMonth - 1, 0, 1), At(ThisMonth - 1, 1, 1), At(ThisMonth, 0, 0)}

\* the days a summary request names; 0 stands for an absent parameter
SummaryDays == {0, (ThisMonth - 1) * DaysPerMonth, (ThisMonth - 1) * DaysPerMonth + 1}

\* item creations under Food and Income with any of the dates, and summary
\* requests of user 1, one request at a time
NextSummary ==
    \E p \in {1} :
          \/ AddExpenseOn(p, Users, {"Food", "Income"}, {0}, SummaryDates)
          \/ SummaryArrive(p, {1}, SummaryDays)
          \/ SummaryRun(p)
          \/ SummaryFails(p)
          \/ Close(p)

SpecSummary == Init /\ [][NextSummary]_vars

\* concurrent deletes of the deposits of user 1
NextIncome == \E p \in Pair : IncDelSteps(p, {1}) \/ EndSteps(p)

SpecIncome == InitDeposited /\ [][NextIncome]_vars

\* slot 1 creates items and categories and sets category targets; slot 2
\* reads category targets
NextTarget ==
    \/ AddExpense(1, Users, {"Food"}, {0})
    \/ AddCategory(1, Users, {"Gym"}, {0})
    \/ UpdateCategoryTarget(1, {1}, {"Food", "Gym"}, Targets)
    \/ CategoryTarget(2, {1}, {"Food", "Gym"})
    \/ \E p \in Pair : Close(p)

SpecTarget == Init /\ [][NextTarget]_vars

\* the requests that create rows and categories and set targets for both
\* users and the deletes of user 2, one request at a time, none of whose
\* statements rejects
NextIsolation ==
    \/ AddExpense(1, {1}, {"Food"}, {0})
    \/ AddExpense(1, {2}, {"Food", "Income"}, {0})
    \/ AddCategory(1, Users, {"Gym"}, {0})
    \/ UpdateCategoryTarget(1, Users, {"Food", "Gym"}, {5})
    \/ DeleteItem(1, {2})
    \/ CatDelSteps(1, {2})
    \/ IncDelSteps(1, {2})
    \/ Commit(1)
    \/ Respond(1)
    \/ Finish(1)

SpecIsolation == InitFunded /\ [][NextIsolation]_vars

\* one item update of user 1 on every slot, none of whose statements rejects
NextDrain == \E p \in Procs : UpdateSteps(p, {1}, {"Food"}, {5}) \/ Commit(p)

SpecDrain == Init /\ [][NextDrain]_vars

\* the requests that address one row by its id, one request at a time, over
\* rows and categories of both users and deposits of user 1
NextById ==
    \E p \in {1} :
          \/ AddExpense(p, Users, {"Food", "Income"}, {0})
          \/ AddCategory(p, Users, {"Gym"}, {0})
          \/ AddSteps(p, {1})
          \/ DeleteItem(p, {1})
          \/ UpdateSteps(p, {1}, {"Food"}, {5, UNDEF})
          \/ IncDelSteps(p, {1})
          \/ CatDelSteps(p, {1})
          \/ EndSteps(p)

SpecById == InitFunded /\ [][NextById]_vars

\* retryOperation alone; the event loop runs every continuation and timer
NextRetry == RtInvoke \/ RtWait \/ RtExhausted

SpecRetry == InitRetry /\ [][NextRetry]_vars /\ WF_vars(NextRetry)

\* ------------------------------------------------------------ properties
\* a request that has answered
Answered(p, kind, status) ==
    pc[p] = "done" /\ req[p].kind = kind /\ resp[p] = status

\* a category deletion has committed and is about to answer 200
Deleted(p) == pc[p] = "respond" /\ req[p].kind = "catdel"

\* C1 as the specification states it: when a category deletion answers 200,
\* no infodata row of that user has the deleted category's label as its
\* section, whatever item requests of the same user run concurrently.
C1_NoRowKeepsDeletedLabel ==
    \A p \in Procs :
        Deleted(p) => BySection(infodata, req[p].user, loc[p].label) = {}

\* C1, amended: when a category deletion answers 200, no infodata row of
\* that user has the deleted label as its section, unless another request
\* stored a row of that user under the label after the cascade's DELETE of
\* the ledger rows (step b).
C1_NoRowSurvivesCascade ==
    \A p \in Procs :
        (Deleted(p) /\ ~dirty[p])
            => BySection(infodata, req[p].user, loc[p].label) = {}

\* a cascade that deleted a ledger row is about to answer 200, and rows the
\* other slot stored are in the table
C1_CascadeDeletedRows ==
    \E p \in Procs :
        /\ Deleted(p)
        /\ ~dirty[p]
        /\ loc[p].n > 0
        /\ wrote[p]
        /\ infodata # {}

\* no request is between its first statement and its answer
Quiescent == \A p \in Procs : pc[p] \in {"idle", "done"}

IncomeOf(rows, u) == BySection(rows, u, "Income")

\* the Income rows of u, counted by value
IncomeCount(u, a) == Cardinality({r \in IncomeOf(infodata, u) : r.value = a})

\* C2: after N balance/add requests with amounts d1..dN have run one after
\* another on a user whose balance was B, the balance is B + d1 + ... + dN
\* and the user's Income rows are exactly N rows with the values d1..dN.
C2_DepositsAddUp ==
    Quiescent =>
        \A u \in Users :
            /\ Num(balance[u]) = Num(opening[u]) + SumBag(deposits[u], 1..MaxAmount)
            /\ \A a \in 1..MaxAmount : IncomeCount(u, a) = deposits[u][a]
            /\ \A r \in IncomeOf(infodata, u) : r.value \in 1..MaxAmount

\* two deposits of different amounts have run on a balance left by earlier
\* deposits
C2_TwoDepositsDone ==
    /\ Quiescent
    /\ \E u \in Users, a, b \in 1..MaxAmount :
          /\ opening[u] = OpeningBalance
          /\ a # b
          /\ deposits[u][a] = 1 /\ deposits[u][b] = 1
    /\ \E p \in Procs : Answered(p, "add", 200)

\* C3: a balance/add request is all-or-nothing.  No step of the store
\* changes a user's balance without adding one Income row of that amount, or
\* the Income rows without the balance; and a request that has finished
\* changed the tables exactly when it answered 200.
C3_AllOrNothing ==
    /\ [](\A p \in Procs :
            (pc[p] = "done" /\ req[p].kind = "add")
                => (wrote[p] <=> resp[p] = 200))
    /\ [][\A u \in Users :
            (balance'[u] # balance[u] \/ IncomeOf(infodata', u) # IncomeOf(infodata, u))
                => \E a \in 1..MaxAmount, id \in RowIds :
                      /\ Num(balance'[u]) = Num(balance[u]) + a
                      /\ id \notin Ids(infodata)
                      /\ IncomeOf(infodata', u)
                           = IncomeOf(infodata, u) \cup {InfoRow(id, u, "Income", a, 0)}]_vars

\* one deposit has succeeded and another has failed with a store error
C3_OneDoneOneFailed ==
    \E p, q \in Procs :
        /\ Answered(p, "add", 200) /\ wrote[p]
        /\ Answered(q, "add", 500) /\ ~wrote[q]
        /\ req[p].user = req[q].user

\* a request of user u is inside its transaction
InFlight(u) ==
    \E p \in Procs : req[p].user = u /\ pc[p] \notin {"idle", "respond", "done"}

\* C4: whatever the interleaving of concurrent balance/add requests of one
\* user, once all of them have committed the balance is the initial balance
\* plus the sum of the committed amounts.
C4_NoLostUpdate ==
    \A u \in Users :
        ~InFlight(u)
            => Num(balance[u]) = Num(opening[u]) + SumBag(deposits[u], 1..MaxAmount)

\* two deposits of one user overlapped: both have committed and neither has
\* answered yet
C4_BothCommitted ==
    \E u \in Users :
        \A p \in Pair :
            pc[p] = "respond" /\ req[p].kind = "add" /\ req[p].user = u

\* the operations the transaction coordinator runs in several statements
CoordinatorKinds == {"catdel", "add", "incdel", "update"}

\* C5: when a multi-statement operation answers 500, none of its mutations
\* is persisted: the tables are as they were before the request.
C5_ErrorPersistsNothing ==
    \A p \in Procs :
        (pc[p] = "done" /\ resp[p] = 500 /\ req[p].kind \in CoordinatorKinds)
            => ~wrote[p]

\* C6: once a request has finished, whatever its exit path, no connection is
\* checked out of the pool on its behalf.
C6_ConnectionsReleased ==
    \A p \in Procs : pc[p] = "done" => held[p] = 0

\* C7: after an item update that supplied a target t has answered 200, every
\* row of that user in the item's post-update section, the updated item
\* included, has target t.
C7_SectionCarriesTarget ==
    \A p \in Procs :
        (Answered(p, "update", 200) /\ req[p].target # UNDEF)
            => \A r \in BySection(infodata, req[p].user, req[p].section) :
                   r.target = req[p].target

\* C8: in every reachable state, the rows of one user that share a section
\* carry the same target.
C8_TargetUniform ==
    \A r1, r2 \in infodata :
        (r1.user_id = r2.user_id /\ r1.section = r2.section)
            => r1.target = r2.target

\* C9: retryOperation retries only ER_USER_LIMIT_REACHED.  Every invocation
\* but the last failed with that code; an invocation that fails with another
\* code is the last one, its error is the one thrown, and no wait follows it
\* (the waits are those after the earlier invocations).
C9_OnlyTransientRetried ==
    /\ \A k \in 1..(Len(rt.calls) - 1) : rt.calls[k] = "ER_USER_LIMIT_REACHED"
    /\ \A k \in 1..Len(rt.calls) :
          (rt.calls[k] \in ErrorCodes /\ rt.calls[k] # "ER_USER_LIMIT_REACHED")
              => /\ k = Len(rt.calls)
                 /\ rt.status = "thrown"
                 /\ rt.raised = [code |-> rt.calls[k], at |-> k]
                 /\ Len(rt.waits) = k - 1

\* a failure of another kind on the second invocation has been thrown
C9_ThrownOnSecondCall ==
    /\ rt.status = "thrown"
    /\ Len(rt.calls) = 2
    /\ rt.calls[2] = "ER_LOCK_DEADLOCK"
    /\ rt.maxRetries = DefaultMaxRetries

\* the run of retryOperation is over
Terminated == rt.status \in {"returned", "thrown"}

AllTransient(calls) == \A k \in 1..Len(calls) : IsTransient(calls[k])

RetryBounded ==
    /\ Len(rt.calls) <= rt.maxRetries
    /\ rt.status = "returned"
          => /\ Len(rt.calls) >= 1
             /\ rt.result \in Results
             /\ rt.result = rt.calls[Len(rt.calls)]
             /\ \A k \in 1..(Len(rt.calls) - 1) : rt.calls[k] \notin Results
    /\ (rt.status = "thrown" /\ AllTransient(rt.calls))
          => /\ Len(rt.calls) = rt.maxRetries
             /\ rt.raised = [code |-> rt.calls[Len(rt.calls)], at |-> Len(rt.calls)]

\* C10: retryOperation(operation, maxRetries) terminates after at most
\* maxRetries invocations of the operation; it returns the result of the
\* first invocation that succeeds, which is then the last one, and when all
\* maxRetries invocations fail transiently it throws the error of the last.
C10_Terminates == [](RetryBounded) /\ <>Terminated

\* the default three invocations all failed transiently and the last error
\* has been thrown
C10_Exhausted ==
    /\ rt.status = "thrown"
    /\ rt.maxRetries = DefaultMaxRetries
    /\ Len(rt.calls) = DefaultMaxRetries
    /\ AllTransient(rt.calls)

CascadeEnded(p, status) ==
    Answered(p, "catdel", status) /\ loc[p].label # ""

\* C12: a cascade that finds the category row gone at step (c) answers 404
\* (500 when the statement itself rejects) and persists nothing, its step (b)
\* deletions included; and of two concurrent deletions of one category that
\* both passed the label lookup and met no store error, exactly one answers
\* 200.
C12_SecondDeleteNotFound ==
    /\ [](\A p, q \in Procs :
            (/\ p # q
             /\ req[p].id = req[q].id
             /\ \E a, b \in {200, 404} : CascadeEnded(p, a) /\ CascadeEnded(q, b))
                => (resp[p] = 200) # (resp[q] = 200))
    /\ [][\A p \in Procs :
            (/\ pc[p] = "c_cat"
             /\ pc'[p] # "c_cat"
             /\ CategoryRows(categories, p) = {})
                => /\ resp'[p] \in {404, 500}
                   /\ infodata' = infodata
                   /\ categories' = categories
                   /\ tx'[p] = NoTx]_vars

\* a cascade deleted a ledger row in step (b), found the category gone in
\* step (c) and answered 404; the row is still in the table
C12_RolledBackDeletion ==
    \E p \in Procs :
        /\ CascadeEnded(p, 404)
        /\ loc[p].n > 0
        /\ BySection(infodata, req[p].user, loc[p].label) # {}

\* C13: the count a cascade reports (affectedRows of its ledger DELETE) is
\* the number of rows of that user under the category's label right before
\* the deletion: it is that number when the DELETE runs, and still when the
\* cascade commits, which leaves no such row.
C13_CountIsRowsDeleted ==
    [][\A p \in Procs :
         /\ (pc[p] = "c_info" /\ pc'[p] = "c_cat")
               => loc'[p].n
                    = Cardinality(BySection(infodata, req[p].user, loc[p].label))
         /\ (req[p].kind = "catdel" /\ pc[p] = "commit" /\ pc'[p] = "respond")
               => /\ loc[p].n
                       = Cardinality(BySection(infodata, req[p].user, loc[p].label))
                  /\ BySection(infodata', req[p].user, loc[p].label) = {}]_vars

\* a cascade over a category with two ledger rows has committed and reports 2
C13_TwoRowsCounted ==
    \E p \in Procs :
        /\ Deleted(p)
        /\ loc[p].n = 2
        /\ infodata = {}

\* the email of a users row that has one
HasEmail(a) == a.email # NullText
HasPhone(a) == a.phone_number # NullText

\* C14: over any sequence and interleaving of signups, Google logins and
\* registrations and profile updates, no two users rows share an email and
\* no two share a phone number.
C14_EmailAndPhoneUnique ==
    \A a, b \in accounts :
        a.id # b.id
            => /\ ~(HasEmail(a) /\ a.email = b.email)
               /\ ~(HasPhone(a) /\ a.phone_number = b.phone_number)

\* C19: a signup whose phone number is already on a users row answers 400
\* "Phone number already registered" (500 when the lookup itself rejects)
\* and creates no row, whether its email is registered or new: the phone
\* lookup runs before the email lookup.
C19_PhoneCheckedFirst ==
    [][\A p \in Procs :
         (/\ req[p].kind = "signup"
          /\ pc[p] = "s_phone"
          /\ pc'[p] # "s_phone"
          /\ ByPhone(accounts, body[p].phone_number) # {})
             => /\ pc'[p] = "done"
                /\ accounts' = accounts
                /\ \/ resp'[p] = 500
                   \/ /\ resp'[p] = 400
                      /\ out'[p].error = "Phone number already registered"]_vars

\* a signup with a registered phone number and a new email has answered 400
\* with the phone message, and the only row is the earlier one
C19_NewEmailOldPhone ==
    \E p \in Procs :
        /\ Answered(p, "signup", 400)
        /\ out[p].error = "Phone number already registered"
        /\ ByPhone(accounts, body[p].phone_number) # {}
        /\ ByEmail(accounts, body[p].email) = {}
        /\ Cardinality(accounts) = 1

\* the request in slot p sends its answer in this step
Answers(p, kind) == req[p].kind = kind /\ pc[p] # "done" /\ pc'[p] = "done"

\* the users row the token names holds exactly this token
StoredOnNamedRow(token) ==
    \E a \in accounts : a.id = token.userId /\ a.refresh_token = token

\* the refresh tokens logins of u stored before the latest one
EarlierLogins(u) == {logins[u][i] : i \in 1..(Len(logins[u]) - 1)}
LatestLogin(u) == logins[u][Len(logins[u])]

\* C15 as the specification states it: once a user has logged in twice, a
\* refresh token an earlier login issued is rejected by rotate with 401, and
\* the one the latest login issued is accepted.
C15_EarlierTokenRejected ==
    [][\A p \in Procs, u \in 1..MaxUsers :
         /\ (Answers(p, "rotate") /\ body[p].token \in EarlierLogins(u))
               => resp'[p] = 401
         /\ (/\ Answers(p, "rotate")
             /\ pc[p] = "r_sel"
             /\ logins[u] # <<>>
             /\ body[p].token = LatestLogin(u))
               => (resp'[p] = 200 \/ out'[p].error = "Invalid refresh token, details")]_vars

\* C15, amended: the users row holds the refresh token of the login whose
\* UPDATE ran last; rotate rejects with 401 every token an earlier login
\* stored that differs from it, and accepts the stored one once it has
\* verified (unexpired) unless the lookup itself rejects.  Two logins signed
\* in the same second issue the same token, which stays valid.
C15_OnlyStoredTokenValid ==
    /\ [](\A u \in 1..MaxUsers :
            logins[u] # <<>> => StoredOnNamedRow(LatestLogin(u)))
    /\ [][\A p \in Procs, u \in 1..MaxUsers :
            /\ (/\ Answers(p, "rotate")
                /\ body[p].token \in EarlierLogins(u)
                /\ body[p].token # LatestLogin(u))
                  => resp'[p] = 401
            /\ (/\ Answers(p, "rotate")
                /\ pc[p] = "r_sel"
                /\ logins[u] # <<>>
                /\ body[p].token = LatestLogin(u))
                  => (resp'[p] = 200
                        \/ out'[p].error = "Invalid refresh token, details")]_vars

\* user 1 logged in twice at different seconds; the first login's token has
\* been rejected with 401 and the second login's token accepted
C15_FirstRejectedSecondAccepted ==
    \E p, q \in Procs :
        /\ Len(logins[1]) = 2
        /\ logins[1][1] # logins[1][2]
        /\ Answered(p, "rotate", 401) /\ body[p].token = logins[1][1]
        /\ out[p].error = "Invalid refresh token"
        /\ Answered(q, "rotate", 200) /\ body[q].token = logins[1][2]

\* C16: rotate issues an access token only for a token that verified under
\* the refresh key and is the one stored on the users row its decoded
\* userId names; every other rotate request answers 401 without a token.
C16_RotateNeedsStoredToken ==
    [][\A p \in Procs :
         /\ (req[p].kind = "rotate" /\ pc[p] = "r_ver" /\ pc'[p] = "r_sel")
               => Verifies(body[p].token, "REFRESH_KEY")
         /\ Answers(p, "rotate")
               => IF resp'[p] = 200
                  THEN /\ pc[p] = "r_sel"
                       /\ body[p].token.key = "REFRESH_KEY"
                       /\ StoredOnNamedRow(body[p].token)
                       /\ out'[p].token.key = "SECRET_KEY"
                       /\ out'[p].token.userId = body[p].token.userId
                  ELSE /\ resp'[p] = 401
                       /\ out'[p].token = NoToken]_vars

\* one rotate has been answered with a new access token, and another, whose
\* token verifies under the refresh key and names the same user but is not
\* the stored one, with 401 and no token
C16_StoredAcceptedOtherRejected ==
    \E p, q \in Procs :
        /\ Answered(p, "rotate", 200)
        /\ out[p].token.key = "SECRET_KEY"
        /\ Answered(q, "rotate", 401)
        /\ body[q].token.key = "REFRESH_KEY"
        /\ body[q].token.userId = body[p].token.userId
        /\ Verifies(body[q].token, "REFRESH_KEY")
        /\ ~StoredOnNamedRow(body[q].token)
        /\ out[q].token = NoToken

\* the request in slot p is at, or past, its route's handler
AtHandler(p) == pc[p] = "chain" /\ Link(p) = "handler"
\* the request in slot p is at verifyToken
AtGate(p) == pc[p] = "chain" /\ Link(p) = "verifyToken"

\* C17: verifyToken answers 401 exactly when the header, or the token in
\* it, is absent, 403 exactly when a token is present and fails
\* verification, and passes on to the next function exactly when the token
\* verifies; it never both answers and passes on.
C17_GateOutcome ==
    [][\A p \in Procs :
         (AtGate(p) /\ (pc'[p] # pc[p] \/ body'[p] # body[p]))
            => LET h == body[p].header
                   absent == Len(h) < 2
                   passed == /\ pc'[p] = "chain"
                             /\ body'[p].at = body[p].at + 1
                             /\ body'[p].user = h[2]
                             /\ resp'[p] = 0
                   answered(status) == /\ pc'[p] = "done"
                                       /\ body'[p] = body[p]
                                       /\ resp'[p] = status
               IN /\ absent <=> answered(401)
                  /\ (~absent /\ ~(h[2].key = "SECRET_KEY" /\ now < h[2].exp))
                        <=> answered(403)
                  /\ (~absent /\ h[2].key = "SECRET_KEY" /\ now < h[2].exp)
                        <=> passed
                  /\ ~(passed /\ pc'[p] = "done")]_vars

\* one request was answered 403 for an expired token of the access key while
\* another, whose token verified, has been passed on to its handler
C17_ExpiredAndPassed ==
    \E p, q \in Procs :
        /\ Answered(p, "route", 403)
        /\ out[p].error = "Token expired"
        /\ body[p].route.chain[body[p].at] = "verifyToken"
        /\ AtHandler(q)
        /\ body[q].user.key = "SECRET_KEY"

\* C18: on every route under /profile and /items the handler, which alone
\* reads and writes the store, runs only for a request whose token
\* verifyToken accepted before.
C18_HandlerBehindGate ==
    \A p \in Procs :
        (AtHandler(p) /\ body[p].route.mount \in {"/profile", "/items"})
           => /\ Len(body[p].header) >= 2
              /\ body[p].user = body[p].header[2]
              /\ body[p].user.key = "SECRET_KEY"

\* the profile update, past verifyToken and the upload, is at its handler
\* while an /items request without a header has been answered 401
C18_UpdateAtHandler ==
    \E p, q \in Procs :
        /\ AtHandler(p)
        /\ body[p].route = Route("/profile", "PUT", "/", GatedUpload)
        /\ body[p].user.key = "SECRET_KEY"
        /\ Answered(q, "route", 401)
        /\ body[q].route.mount = "/items"
        /\ body[q].at = 1

\* the ids of the rows of a listing result
RECURSIVE IdsOf(_)
IdsOf(rows) == IF rows = <<>> THEN <<>> ELSE <<Head(rows).id>> \o IdsOf(Tail(rows))

\* entries (page - 1) * limit + 1 .. page * limit of the rows of u that match
\* the filters of q, sorted by date descending, then id descending
ExpectedPage(u, q) ==
    LET all == Sorted(Matching(infodata, u, q))
        first == (PageOf(q) - 1) * LimitOf(q) + 1
        last == PageOf(q) * LimitOf(q)
    IN IdsOf([k \in 1..(IF last <= Len(all) THEN last - first + 1
                        ELSE IF first <= Len(all) THEN Len(all) - first + 1
                        ELSE 0) |-> all[first + k - 1]])

\* how often item id occurs on pages 1, 2, ... of the listing of u under q
Occurrences(u, q, id, ascending) ==
    Cardinality({kj \in (1..(MaxRows * 2 + 1)) \X (1..LimitOf(q)) :
        LET page == ListQuery(u, [q EXCEPT !._page = kj[1]], ascending)
        IN kj[2] <= Len(page) /\ page[kj[2]].id = id})

\* C20: a listing with page p >= 1 and size n >= 1 returns entries
\* (p - 1) * n + 1 .. p * n of the user's rows that match the category and
\* date filters, sorted by date descending then id descending; and over
\* consecutive pages every matching row comes exactly once.
C20_PageIsSlice ==
    [][\A p \in Procs :
         (Answers(p, "list") /\ resp'[p] = 200)
            => /\ IdsOf(out'[p].items) = ExpectedPage(req[p].user, body[p].query)
               /\ \A i \in Matching(infodata, req[p].user, body[p].query),
                     ascending \in BOOLEAN :
                     Occurrences(req[p].user, body[p].query, i.id, ascending) = 1]_vars

\* C21: a listing never reaches the store with a non-positive LIMIT or a
\* negative OFFSET: a page size or page number that is 0 or negative has been
\* rejected or replaced by the default before the listing SELECT is issued.
C21_LimitAndOffsetValid ==
    \A p \in Procs :
        (req[p].kind = "list" /\ pc[p] = "i_sel")
            => /\ LimitOf(body[p].query) >= 1
               /\ OffsetOf(body[p].query) >= 0

\* a summary request of the kind that was answered 200
Summarized(p, kind) ==
    /\ req[p].kind = "aggregate"
    /\ body[p].query.kind = kind
    /\ pc[p] = "done"
    /\ resp[p] = 200

\* C22: the monthly summary for the last m months returns exactly m buckets,
\* one per calendar month of the window that ends at the current month, in
\* chronological order; each bucket is the sum of the user's non-Income rows
\* dated in that calendar month of that year, or 0.
C22_MonthlyBuckets ==
    \A p \in Procs :
        Summarized(p, "monthly") =>
            LET m == MonthsOf(body[p].query.window)
                res == out[p].items
            IN /\ DOMAIN res = 1..m
               /\ \A k \in 1..m :
                    /\ res[k].month = (ThisMonth - (m - k)) % MonthsPerYear
                    /\ res[k].total_expenses =
                         TotalExpenses({r \in OfUser(infodata, req[p].user) :
                                           MonthOf(r.date) = ThisMonth - (m - k)})

\* C23: the daily summary for startDate <= endDate returns exactly one bucket
\* per calendar day from startDate to endDate inclusive, ascending; each
\* bucket is the sum of the user's non-Income rows dated on that day at
\* whatever time of day, or 0.
C23_DailyBuckets ==
    \A p \in Procs :
        (Summarized(p, "daily") /\ body[p].query.fromDate <= body[p].query.toDate) =>
            LET startDate == body[p].query.fromDate
                endDate == body[p].query.toDate
                res == out[p].items
            IN /\ DOMAIN res = 1..(endDate - startDate + 1)
               /\ \A k \in DOMAIN res :
                    /\ res[k].date = startDate + k - 1
                    /\ res[k].total_expenses =
                         TotalExpenses({r \in OfUser(infodata, req[p].user) :
                                           DayOf(r.date) = startDate + k - 1})

WithoutIncome(rows) == {r \in rows : r.section # "Income"}

\* C24: Income rows contribute nothing to any expense total: the period
\* summary, the category summary, the total by category and the monthly,
\* weekly and daily summaries of a user are the same with the user's Income
\* rows as without them.
C24_IncomeExcluded ==
    \A u \in Users :
        LET rows == infodata
            others == WithoutIncome(infodata)
        IN /\ \A category \in {"", "Food", "Income"}, fromDate, toDate \in SummaryDays :
                 LET q == SummaryQuery("summary", category, Midnight(fromDate),
                                       Midnight(toDate), 0)
                 IN Summary(rows, u, q).totalExpenses = Summary(others, u, q).totalExpenses
           /\ CategorySummary(rows, u) = CategorySummary(others, u)
           /\ \A category \in {"Food", "Income"} :
                 TotalByCategory(rows, u, category) = TotalByCategory(others, u, category)
           /\ \A window \in (1..MaxWindow) \cup {MonthsPerYear + 1} :
                 Monthly(rows, u, window) = Monthly(others, u, window)
           /\ \A window \in 1..MaxWindow :
                 Weekly(rows, u, window) = Weekly(others, u, window)
           /\ \A startDate, endDate \in SummaryDays \ {0} :
                 Daily(rows, u, startDate, endDate) = Daily(others, u, startDate, endDate)

\* the step of request p that runs its statement WHERE id = ? AND user_id = ?
ByIdStep(p) ==
    /\ pc'[p] # pc[p]
    /\ \/ pc[p] = "idle" /\ req'[p].kind = "itemdel"
       \/ pc[p] \in {"u_item", "d_sel", "c_sel"}

\* the row that step addresses does not exist or belongs to another user
Missing(p) ==
    IF req'[p].kind = "catdel"
    THEN ~\E c \in categories : c.id = req'[p].id /\ c.user_id = req'[p].user
    ELSE ~\E r \in infodata : r.id = req'[p].id /\ r.user_id = req'[p].user
                              /\ (req'[p].kind = "incdel" => r.section = "Income")

\* C25: an item update, item delete, income-transaction delete or custom
\* category delete whose id names no row of the requesting user answers 404
\* and changes no stored row.
C25_MissingIdIs404 ==
    [][\A p \in Procs :
         (ByIdStep(p) /\ Missing(p) /\ resp'[p] # 500)
            => /\ pc'[p] = "done"
               /\ resp'[p] = 404
               /\ tx'[p] = NoTx
               /\ <<balance, infodata, categories>>' = <<balance, infodata, categories>>]_vars

\* C27: deleting an income transaction deducts its value exactly once: under
\* any interleaving of concurrent deletes of the deposits, the balance is the
\* initial balance less the values of the deposits that are gone.
C27_DeductedOnce ==
    \A u \in Users :
        balance[u] = opening[u] - SumValue(OfUser(Deposited, u) \ infodata)

\* a request that holds a connection and waits for the pool to hand it one
WaitsForPool(p) == held[p] > 0 /\ pc[p] \in {"u_get", "u_read"}

\* C26: the pool is never drained by waiting requests: there is no state in
\* which every connection of the pool is held by a request that is itself
\* waiting for a further connection of the pool, so every item update
\* eventually responds.
C26_PoolNeverDrained ==
    ~(/\ inUse = connectionLimit
      /\ \A p \in Procs : held[p] > 0 => WaitsForPool(p)
      /\ \E p \in Procs : WaitsForPool(p))

\* balance less the values of the Income rows of user u
LedgerGap(bal, rows, u) == Num(bal[u]) - SumValue(IncomeOf(rows, u))

\* C28: for every user, the balance less the sum of the values of the user's
\* Income rows is the same in every state: no balance add, income delete,
\* item create, item update, item delete or category cascade delete changes
\* it.
C28_LedgerGapConstant ==
    [][\A u \in Users :
         LedgerGap(balance', infodata', u) = LedgerGap(balance, infodata, u)]_vars

\* C30: after update-category-target(category, t) of user U has answered
\* success, a following category-target(category) of U, with no mutation in
\* between, returns t, for a default category name and for a custom label.
C30_TargetRoundTrip ==
    [][\A p, q \in Procs :
         (/\ Answered(p, "settarget", 200)
          /\ pc[q] = "idle" /\ pc'[q] = "done"
          /\ req'[q].kind = "gettarget"
          /\ req'[q].user = req[p].user
          /\ req'[q].section = req[p].section
          /\ resp'[q] = 200)
            => out'[q].items = req[p].target]_vars

\* a custom label's target was set to a value other than the default and
\* read back
C30_CustomTargetReadBack ==
    \E p, q \in Procs :
        /\ Answered(p, "settarget", 200)
        /\ Answered(q, "gettarget", 200)
        /\ req[p].section \notin defaultCategories
        /\ req[q].section = req[p].section
        /\ req[q].user = req[p].user
        /\ req[p].target # 0
        /\ out[q].items = req[p].target

\* the user on whose behalf the step is taken
StepOf(u) ==
    \E p \in Procs :
        /\ pc'[p] # pc[p]
        /\ u = IF pc[p] = "idle" THEN req'[p].user ELSE req[p].user

\* what the listing, summary, category and balance requests of u answer with
\* over the tables rows and table and the balances bal
Observed(rows, table, bal, u) ==
    <<[a \in BOOLEAN |-> ListQueryOver(rows, table, u, Query(1, 0, "", 0, 0), a)],
      Summary(rows, u, SummaryQuery("summary", "", 0, 0, 0)),
      CategorySummary(rows, u),
      [s \in {"Food", "Gym", "Income"} |-> TotalByCategory(rows, u, s)],
      Monthly(rows, u, 1),
      bal[u]>>

\* C29: per-user isolation: a step taken for a user leaves what every other
\* user's listing, summary, category and balance requests answer as it was,
\* and inserts, modifies or deletes no infodata or categories row of another
\* user.
C29_Isolation ==
    [][\A u, v \in Users :
         (StepOf(v) /\ u # v)
            => /\ \A rows \in {infodata'}, table \in {categories'}, bal \in {balance'} :
                     Observed(rows, table, bal, u)
                        = Observed(infodata, categories, balance, u)
               /\ TargetRead(u, "Food")' = TargetRead(u, "Food")
               /\ TargetRead(u, "Gym")' = TargetRead(u, "Gym")
               /\ OfUser(infodata', u) = OfUser(infodata, u)
               /\ OfUser(categories', u) = OfUser(categories, u)]_vars

\* a delete of user 2 has removed a row while user 1 has a row whose target
\* user 1 has set and a category
C29_OtherUserActed ==
    /\ pc[1] = "done" /\ req[1].user = 2 /\ wrote[1] /\ resp[1] = 200
    /\ req[1].kind \in {"itemdel", "incdel", "catdel"}
    /\ \E r \in infodata : r.user_id = 1 /\ r.target = 5
    /\ \E c \in categories : c.user_id = 1

====
